---------------------------- MODULE Spec2Model ----------------------------
(***************************************************************************)
(* The shared memory pipe of libs/shmempipe: an owner process whose        *)
(* threads call OwnedRequester::request_response, and a single threaded    *)
(* worker that reads frames with OwnedResponder::read_next_frame_len /     *)
(* read / read_exact and answers with write_all.                           *)
(*                                                                         *)
(* Every access to the shared record (rings, to_worker_waiters, the two    *)
(* eventfd semaphores, magic), to `next` and to the park tokens is a step  *)
(* of its own.  A mutex acquisition is taken together with the first such  *)
(* access under it and a release with the last one; what a critical        *)
(* section does to the data only its mutex guards is part of these steps.  *)
(* The adaptive SpinWait only delays a retry, so a retry that would find   *)
(* nothing changed is not a step.                                          *)
(*                                                                         *)
(* The life of the region (create, open_existing, the drop of the handles) *)
(* is modelled apart from its use: SpecLife and SpecAcquire run it with    *)
(* the pipe idle, SpecHeap runs the wakeup heap on its own, the other      *)
(* specifications start from a created and attached region and leave it    *)
(* so.  The workload of a behaviour (who calls, with what, from which      *)
(* ticket on) is the record `run`, fixed by the initial state.             *)
(***************************************************************************)
EXTENDS Integers, Sequences, FiniteSets, TLC

(***************************************************************************)
(* Bounds of the model.                                                    *)
(***************************************************************************)
\* number of owner threads; the workloads that wrap the ticket counter use
\* all of them, the others two or one
NThreads == 3
\* request_response calls started in one behaviour
MaxCalls == 3
\* the same, where every request and response length is tried
EchoCalls == 2
\* the same, where scheduling is fair
FairCalls == 2
\* longest request payload
MaxLen == 3
\* most entries of a wakeup heap used on its own, and the largest id stored in it
MaxHeap == 3
MaxTicket == 3
\* the ring capacities TO_WORKER_LEN (32 * 4096) and FROM_WORKER_LEN
\* (4 * 4096), scaled down so that both rings fill up
TO_WORKER_LEN == 9
FROM_WORKER_LEN == 2
\* the modulus of the u32 counters (2^32 in the program), scaled down
U32 == 16
\* calls of open_existing the worker process makes in one behaviour
NAttach == 2
\* calls of spin() on one SpinWait in one behaviour
MaxSpins == 13
\* frames pushed into the to-worker ring by hand in one behaviour
MaxInject == 2
\* for _ in 0..1000 in join_initialized_at
JOIN_POLLS == 1000
\* if self.0 < 10, and self.0 = 10, in SpinWait::spin
SPIN_LIMIT == 10

Threads == 1..NThreads
\* the threads of the workloads with two callers
TwoThreads == {1, 2}
NoThread == 0

\* the request of l bytes that thread t sends in the workloads where every
\* byte says which thread sent it and where in the payload it stood
ReqOf(t, l) == [i \in 1..l |-> 16 * t + i]

\* Option::None of OwnedResponder::remaining
None == <<>>

USE_EVENTFD_ON_RESPONSE == TRUE

Min(a, b) == IF a <= b THEN a ELSE b

Take(s, n) == SubSeq(s, 1, n)

Drop(s, n) == SubSeq(s, n + 1, Len(s))

(***************************************************************************)
(* Frame length: u64::to_ne_bytes on send, the check of the upper four     *)
(* bytes and u64::from_ne_bytes on receive (little endian).                *)
(***************************************************************************)
RECURSIVE LeBytes(_, _)
LeBytes(v, k) == IF k = 0 THEN <<>> ELSE <<v % 256>> \o LeBytes(v \div 256, k - 1)

to_ne_bytes(len) == LeBytes(len, 8)

UpperIsZero(raw) == SubSeq(raw, 5, 8) = <<0, 0, 0, 0>>

\* only used after UpperIsZero(raw)
from_ne_bytes(raw) == raw[1] + 256 * raw[2] + 65536 * raw[3] + 16777216 * raw[4]

(***************************************************************************)
(* UnparkInOrder: a BinaryHeap of HeapEntry(Reverse(id), thread), kept as  *)
(* the heap's array.  An entry is <<id, thread>>.                          *)
(***************************************************************************)
\* HeapEntry::cmp on the id without Reverse
EntryLeById(a, b) == a[1] <= b[1]

\* HeapEntry::cmp: Reverse<u32>, so the greater entry is the smaller id
EntryLe(a, b) == a[1] >= b[1]

RECURSIVE sift_up(_, _, _)
\* BinaryHeap::sift_up with start = 0: the hole at pos (1-based) moves up
\* while the element is greater than its parent
sift_up(data, pos, elt) ==
    IF pos > 1 /\ ~EntryLe(elt, data[pos \div 2])
    THEN sift_up([data EXCEPT ![pos] = data[pos \div 2]], pos \div 2, elt)
    ELSE [data EXCEPT ![pos] = elt]

RECURSIVE sift_down_to_bottom(_, _, _)
\* BinaryHeap::sift_down_to_bottom: the hole goes down to a leaf along the
\* greater children, then the element is sifted up from there
sift_down_to_bottom(data, pos, elt) ==
    LET l == 2 * pos
        r == 2 * pos + 1
    IN IF r <= Len(data)
       THEN LET c == IF EntryLe(data[l], data[r]) THEN r ELSE l
            IN sift_down_to_bottom([data EXCEPT ![pos] = data[c]], c, elt)
       ELSE IF l = Len(data)
       THEN sift_up([data EXCEPT ![pos] = data[l]], l, elt)
       ELSE sift_up(data, pos, elt)

HeapPush(data, e) == sift_up(Append(data, e), Len(data) + 1, e)

\* BinaryHeap::pop: the last element replaces the root and is sifted
HeapPop(data) ==
    IF Len(data) <= 1 THEN <<>>
    ELSE sift_down_to_bottom(Take(data, Len(data) - 1), 1, data[Len(data)])

store_current(data, id, t) == HeapPush(data, <<id, t>>)

current_is_front(data, expected_id, t) ==
    /\ data # <<>>
    /\ data[1][1] = expected_id
    /\ data[1][2] = t

\* the thread unpark_front(turn) unparks, NoThread when it does nothing
unpark_front(data, turn) ==
    IF data # <<>> /\ data[1][1] = turn THEN data[1][2] ELSE NoThread

(***************************************************************************)
(* State.                                                                  *)
(***************************************************************************)
VARIABLES
    \* RawSharedMemPipe
    magic,              \* the magic word
    notify_worker,      \* counter of the eventfd semaphore behind the fd
    notify_owner,
    participants,       \* <<owner pid, worker pid>>, 0 is unoccupied
    to_worker_waiters,
    to_worker,          \* bytes in the ring, oldest first
    from_worker,
    \* OwnedRequester
    producer_held,      \* thread holding the producer mutex, or NoThread
    producer,           \* the u32 the producer mutex guards: next ticket
    consumer_held,      \* thread holding the consumer mutex, or NoThread
    waiting,            \* Wakeup::waiting: the heap's array
    next,               \* OwnedRequester::next
    token,              \* token[t]: std::thread park token of thread t
    th,                 \* th[t]: locals of thread t inside request_response; stored
                        \* says that the call put the thread into `waiting`
    \* OwnedResponder and the worker's main loop around it
    wk,
    \* history
    calls,              \* the requests, in the order tickets were assigned
    sent,               \* every byte pushed into to_worker so far
    lens,               \* every length read_next_frame_len returned
    frames,             \* <<len, payload>> of every frame the worker read
    replies,            \* every buffer handed to write_all
    done,               \* what every returned request_response call returned
    posts,              \* posts.notify_worker[k]: where the k-th call posted, in order;
                        \* posts.notify_owner[j]: where the j-th write_all posted;
                        \* posts.pre[k]: what the k-th call's fetch_add returned;
                        \* kept when the workload says so (run.log)
    \* the workload of the behaviour, fixed by Init
    run,
    \* the region and the handles to it
    proc,               \* proc[p]: where process p is in create / open_existing / drop,
                        \* its SharedMemPipePtr, the polls and the attaches it has made
    region,             \* the shared memory object: the fields written so far, who maps it
    fds,                \* fds[p]: the eventfds open in process p
    stores,             \* every store to magic: who, through which handle, old and new value
    closes,             \* every close of the eventfds by a drop: who, through which handle
    acquires,           \* every compare_exchange on a participant slot: who, the slot,
                        \* its value before and after, who else could call one
    \* calls of UnparkInOrder on their own
    obs,                \* the last call of unpark_front: its argument, the heap it found
                        \* and the thread it unparked
    \* a SpinWait on its own
    spinwait            \* n: the counter; hints, yielded: the pause hints the last spin()
                        \* executed and whether it yielded; last: the last call;
                        \* polls: the calls of spin() so far

pipe_vars == <<notify_worker, notify_owner, to_worker_waiters, to_worker, from_worker,
               producer_held, producer, consumer_held, waiting, next, token, th, wk,
               calls, sent, lens, frames, replies, done, posts>>

life_vars == <<magic, participants, proc, region, fds, stores, closes, acquires>>

\* unchanged by every step of the pipe's two ends
fixed_vars == <<life_vars, run, obs, spinwait>>

vars == <<pipe_vars, life_vars, run, obs, spinwait>>

\* the history of posts after a post on sem by the k-th call or write_all
log_post(sem, k, at) ==
    IF run.log THEN [posts EXCEPT ![sem][k] = Append(@, at)] ELSE posts

\* the value a call's to_worker_waiters.fetch_add(1) returned, recorded as the
\* posts are
log_pre(v) == IF run.log THEN [posts EXCEPT !.pre = Append(@, v)] ELSE posts

(***************************************************************************)
(* EventfdSemaphore (shared.rs, EFD_SEMAPHORE): post adds one to the       *)
(* counter, wait blocks until the counter is positive and takes one.       *)
(***************************************************************************)
sem_post(count) == count + 1

sem_can_wait(count) == count > 0

sem_wait(count) == count - 1

(***************************************************************************)
(* ringbuf push_slice / pop_slice on a ring of capacity cap: as many       *)
(* bytes as fit (as are there), possibly none.                             *)
(***************************************************************************)
\* push_slice that takes every byte, whatever the free space
push_n_unbounded(ring, cap, src) == Len(src)

push_n(ring, cap, src) == Min(Len(src), cap - Len(ring))

pop_n(ring, want) == Min(want, Len(ring))

(***************************************************************************)
(* OwnedRequester::request_response, one thread t.                         *)
(***************************************************************************)
IdleThread == [pc |-> "idle", id |-> 0, req |-> <<>>, out |-> <<>>, phase |-> "len",
               resp |-> <<>>, len |-> 0, might_wait |-> FALSE, next |-> 0, prev |-> 0,
               stored |-> FALSE]

\* the response lengths a workload asks for with request r: what fits the
\* from-worker ring, the request's length, or every length up to it
RespLens(r) ==
    CASE run.resp = "fit" -> {Min(Len(r), FROM_WORKER_LEN)}
      [] run.resp = "all" -> {Len(r)}
      [] OTHER -> 0..Len(r)

\* all calls started so far
Started == Len(done) + Cardinality({t \in Threads : th[t].pc # "idle"})

\* the place in calls of the call thread t is in
CallOf(t) == CHOOSE k \in 1..Len(calls) : calls[k].thread = t /\ calls[k].id = th[t].id

\* send_request_lock that owes the wakeup whatever fetch_add returned
send_request_lock_always_wake(t, r, n) ==
    /\ th[t].pc = "idle"
    /\ t \in run.threads
    /\ r \in run.reqs[t]
    /\ n \in RespLens(r)
    /\ Started < run.calls
    /\ producer_held = NoThread
    /\ producer_held' = t
    /\ to_worker_waiters' = (to_worker_waiters + 1) % U32
    /\ producer' = (producer + 1) % U32
    /\ th' = [th EXCEPT ![t] = [IdleThread EXCEPT !.pc = "send_push", !.req = r, !.len = n,
                                                  !.might_wait = TRUE,
                                                  !.id = producer, !.phase = "len",
                                                  !.out = to_ne_bytes(Len(r))]]
    /\ calls' = Append(calls, [thread |-> t, id |-> producer, req |-> r, len |-> n])
    /\ posts' = log_pre(to_worker_waiters)
    /\ UNCHANGED <<notify_worker, notify_owner, to_worker, from_worker,
                   consumer_held, waiting, next, token, wk,
                   sent, lens, frames, replies, done, fixed_vars>>

\* request_response(req, resp) with a response buffer of n bytes is called and
\* send_request gets the producer mutex: to_worker_waiters.fetch_add(1) == 0,
\* then the ticket is taken from the counter the mutex guards
send_request_lock(t, r, n) ==
    /\ th[t].pc = "idle"
    /\ t \in run.threads
    /\ r \in run.reqs[t]
    /\ n \in RespLens(r)
    /\ Started < run.calls
    /\ producer_held = NoThread
    /\ producer_held' = t
    /\ to_worker_waiters' = (to_worker_waiters + 1) % U32
    /\ producer' = (producer + 1) % U32
    /\ th' = [th EXCEPT ![t] = [IdleThread EXCEPT !.pc = "send_push", !.req = r, !.len = n,
                                                  !.might_wait = (to_worker_waiters = 0),
                                                  !.id = producer, !.phase = "len",
                                                  !.out = to_ne_bytes(Len(r))]]
    /\ calls' = Append(calls, [thread |-> t, id |-> producer, req |-> r, len |-> n])
    /\ posts' = log_pre(to_worker_waiters)
    /\ UNCHANGED <<notify_worker, notify_owner, to_worker, from_worker,
                   consumer_held, waiting, next, token, wk,
                   sent, lens, frames, replies, done, fixed_vars>>

\* send_request_push with the guard dropped between the two sends: the mutex is
\* released after the length's last byte
send_request_push_postponed(t) ==
    /\ th[t].pc = "send_push"
    /\ LET n == push_n(to_worker, TO_WORKER_LEN, th[t].out)
           rest == Drop(th[t].out, n)
           last == rest = <<>> /\ (th[t].phase = "req" \/ th[t].req = <<>>)
       IN /\ n > 0 \/ rest = <<>> \/ th[t].might_wait
          /\ to_worker' = to_worker \o Take(th[t].out, n)
          /\ sent' = sent \o Take(th[t].out, n)
          /\ producer_held' = IF rest = <<>> /\ producer_held = t THEN NoThread
                               ELSE producer_held
          /\ th' = [th EXCEPT
                       ![t].out = IF rest = <<>> /\ th[t].phase = "len" THEN th[t].req ELSE rest,
                       ![t].phase = IF rest = <<>> THEN "req" ELSE th[t].phase,
                       ![t].pc = IF last
                                 THEN (IF th[t].might_wait THEN "send_post" ELSE "turn_load")
                                 ELSE IF n = 0 THEN "send_post_full"
                                 ELSE "send_push"]
    /\ UNCHANGED <<notify_worker, notify_owner, to_worker_waiters, from_worker,
                   producer, consumer_held, waiting, next, token, wk,
                   calls, lens, frames, replies, done, posts, fixed_vars>>

\* one turn of the `send` closure's loop: push_slice, then break, post or
\* spin; after the payload's last byte the mutex is released
send_request_push(t) ==
    /\ th[t].pc = "send_push"
    /\ LET n == push_n(to_worker, TO_WORKER_LEN, th[t].out)
           rest == Drop(th[t].out, n)
           last == rest = <<>> /\ (th[t].phase = "req" \/ th[t].req = <<>>)
       IN /\ n > 0 \/ rest = <<>> \/ th[t].might_wait
          /\ to_worker' = to_worker \o Take(th[t].out, n)
          /\ sent' = sent \o Take(th[t].out, n)
          /\ producer_held' = IF last THEN NoThread ELSE producer_held
          /\ th' = [th EXCEPT
                       ![t].out = IF rest = <<>> /\ th[t].phase = "len" THEN th[t].req ELSE rest,
                       ![t].phase = IF rest = <<>> THEN "req" ELSE th[t].phase,
                       ![t].pc = IF last
                                 THEN (IF th[t].might_wait THEN "send_post" ELSE "turn_load")
                                 ELSE IF n = 0 THEN "send_post_full"
                                 ELSE "send_push"]
    /\ UNCHANGED <<notify_worker, notify_owner, to_worker_waiters, from_worker,
                   producer, consumer_held, waiting, next, token, wk,
                   calls, lens, frames, replies, done, posts, fixed_vars>>

\* send_request_post_full without might_wait = false
send_request_post_full_keep(t) ==
    /\ th[t].pc = "send_post_full"
    /\ notify_worker' = sem_post(notify_worker)
    /\ posts' = log_post("notify_worker", CallOf(t), "full")
    /\ th' = [th EXCEPT ![t].pc = "send_push"]
    /\ UNCHANGED <<notify_owner, to_worker_waiters, to_worker, from_worker,
                   producer_held, producer, consumer_held, waiting, next, token, wk,
                   calls, sent, lens, frames, replies, done, fixed_vars>>

\* push returned 0 and might_wait: sem.post(), might_wait = false
send_request_post_full(t) ==
    /\ th[t].pc = "send_post_full"
    /\ notify_worker' = sem_post(notify_worker)
    /\ posts' = log_post("notify_worker", CallOf(t), "full")
    /\ th' = [th EXCEPT ![t].pc = "send_push", ![t].might_wait = FALSE]
    /\ UNCHANGED <<notify_owner, to_worker_waiters, to_worker, from_worker,
                   producer_held, producer, consumer_held, waiting, next, token, wk,
                   calls, sent, lens, frames, replies, done, fixed_vars>>

\* send_request_post without the post
send_request_post_none(t) ==
    /\ th[t].pc = "send_post"
    /\ th' = [th EXCEPT ![t].pc = "turn_load"]
    /\ UNCHANGED <<notify_worker, notify_owner, to_worker_waiters, to_worker, from_worker,
                   producer_held, producer, consumer_held, waiting, next, token, wk,
                   calls, sent, lens, frames, replies, done, posts, fixed_vars>>

\* after drop(g): if might_wait { sem.post() }
send_request_post(t) ==
    /\ th[t].pc = "send_post"
    /\ notify_worker' = sem_post(notify_worker)
    /\ posts' = log_post("notify_worker", CallOf(t), "after")
    /\ th' = [th EXCEPT ![t].pc = "turn_load"]
    /\ UNCHANGED <<notify_owner, to_worker_waiters, to_worker, from_worker,
                   producer_held, producer, consumer_held, waiting, next, token, wk,
                   calls, sent, lens, frames, replies, done, fixed_vars>>

\* turn_load without the wait for the turn
turn_load_no_wait(t) ==
    /\ th[t].pc = "turn_load"
    /\ th' = [th EXCEPT ![t].next = next, ![t].pc = "recv_wait"]
    /\ UNCHANGED <<notify_worker, notify_owner, to_worker_waiters, to_worker, from_worker,
                   producer_held, producer, consumer_held, waiting, next, token, wk,
                   calls, sent, lens, frames, replies, done, posts, fixed_vars>>

\* let mut next = self.next.load(Acquire); if next != id { ... }
turn_load(t) ==
    /\ th[t].pc = "turn_load"
    /\ th' = [th EXCEPT ![t].next = next,
                        ![t].pc = IF next # th[t].id THEN "turn_lock" ELSE "recv_wait"]
    /\ UNCHANGED <<notify_worker, notify_owner, to_worker_waiters, to_worker, from_worker,
                   producer_held, producer, consumer_held, waiting, next, token, wk,
                   calls, sent, lens, frames, replies, done, posts, fixed_vars>>

\* self.consumer.lock() and the recheck under it: store_current(id) when it is
\* still not our turn, else drop(g) and assert_eq!(next, id)
turn_recheck(t) ==
    /\ th[t].pc = "turn_lock"
    /\ consumer_held = NoThread
    /\ consumer_held' = IF next # th[t].id THEN t ELSE NoThread
    /\ th' = [th EXCEPT ![t].next = next,
                        ![t].stored = (next # th[t].id),
                        ![t].pc = IF next # th[t].id THEN "park_cond" ELSE "recv_wait"]
    /\ waiting' = IF next # th[t].id THEN store_current(waiting, th[t].id, t) ELSE waiting
    /\ UNCHANGED <<notify_worker, notify_owner, to_worker_waiters, to_worker, from_worker,
                   producer_held, producer, next, token, wk,
                   calls, sent, lens, frames, replies, done, posts, fixed_vars>>

\* pop_front's two assert_eq!
pop_front_ok(data, expected_id, t) ==
    /\ data # <<>>
    /\ data[1][2] = t
    /\ data[1][1] = expected_id

\* pop_front: PeekMut::pop
pop_front(data) == HeapPop(data)

\* park_while and the assertions after it, without pop_front(id)
park_while_no_pop(t) ==
    /\ \/ th[t].pc = "park_cond" /\ consumer_held = t
       \/ th[t].pc = "park_lock" /\ consumer_held = NoThread
    /\ consumer_held' = NoThread
    /\ LET ok == current_is_front(waiting, th[t].id, t)
       IN th' = [th EXCEPT ![t].next = next,
                           ![t].pc = IF next # th[t].id THEN "parked"
                                     ELSE IF ok THEN "recv_wait" ELSE "panic"]
    /\ UNCHANGED <<notify_worker, notify_owner, to_worker_waiters, to_worker, from_worker,
                   producer_held, producer, waiting, next, token, wk,
                   calls, sent, lens, frames, replies, done, posts, fixed_vars>>

\* park_while that takes a return of park() for its turn, without the checks
\* of next after it
park_while_any_wakeup(t) ==
    /\ \/ th[t].pc = "park_cond" /\ consumer_held = t
       \/ th[t].pc = "park_lock" /\ consumer_held = NoThread
    /\ consumer_held' = NoThread
    /\ LET ok == current_is_front(waiting, th[t].id, t) /\ pop_front_ok(waiting, th[t].id, t)
           go == th[t].pc = "park_lock" \/ next = th[t].id
       IN /\ th' = [th EXCEPT ![t].next = IF next = th[t].id THEN next ELSE @,
                              ![t].pc = IF ~go THEN "parked"
                                        ELSE IF ok THEN "recv_wait" ELSE "panic"]
          /\ waiting' = IF go /\ ok THEN pop_front(waiting) ELSE waiting
    /\ UNCHANGED <<notify_worker, notify_owner, to_worker_waiters, to_worker, from_worker,
                   producer_held, producer, next, token, wk,
                   calls, sent, lens, frames, replies, done, posts, fixed_vars>>

\* park_while's condition under the lock, next = self.next.load(Acquire), the first
\* time with the lock still held and then with it taken again after park().  Not our
\* turn: drop(guard), on to park().  Our turn: assert!(current_is_front(id)),
\* pop_front(id), drop(g), assert_eq!(next, id); a failed assertion is a panic.
park_while(t) ==
    /\ \/ th[t].pc = "park_cond" /\ consumer_held = t
       \/ th[t].pc = "park_lock" /\ consumer_held = NoThread
    /\ consumer_held' = NoThread
    /\ LET ok == current_is_front(waiting, th[t].id, t) /\ pop_front_ok(waiting, th[t].id, t)
       IN /\ th' = [th EXCEPT ![t].next = next,
                              ![t].pc = IF next # th[t].id THEN "parked"
                                        ELSE IF ok THEN "recv_wait" ELSE "panic"]
          /\ waiting' = IF next = th[t].id /\ ok THEN pop_front(waiting) ELSE waiting
    /\ UNCHANGED <<notify_worker, notify_owner, to_worker_waiters, to_worker, from_worker,
                   producer_held, producer, next, token, wk,
                   calls, sent, lens, frames, replies, done, posts, fixed_vars>>

\* std::thread::park() returns because the token is there, and takes it
park(t) ==
    /\ th[t].pc = "parked"
    /\ token[t]
    /\ token' = [token EXCEPT ![t] = FALSE]
    /\ th' = [th EXCEPT ![t].pc = "park_lock"]
    /\ UNCHANGED <<notify_worker, notify_owner, to_worker_waiters, to_worker, from_worker,
                   producer_held, producer, consumer_held, waiting, next, wk,
                   calls, sent, lens, frames, replies, done, posts, fixed_vars>>

\* std::thread::park() may also return spuriously
park_spurious(t) ==
    /\ th[t].pc = "parked"
    /\ ~token[t]
    /\ run.spurious
    /\ th' = [th EXCEPT ![t].pc = "park_lock"]
    /\ UNCHANGED <<notify_worker, notify_owner, to_worker_waiters, to_worker, from_worker,
                   producer_held, producer, consumer_held, waiting, next, token, wk,
                   calls, sent, lens, frames, replies, done, posts, fixed_vars>>

\* recv_response: if USE_EVENTFD_ON_RESPONSE { sem.wait() }
recv_response_wait(t) ==
    /\ th[t].pc = "recv_wait"
    /\ USE_EVENTFD_ON_RESPONSE => sem_can_wait(notify_owner)
    /\ notify_owner' = IF USE_EVENTFD_ON_RESPONSE THEN sem_wait(notify_owner) ELSE notify_owner
    /\ th' = [th EXCEPT ![t].pc = "recv_pop"]
    /\ UNCHANGED <<notify_worker, to_worker_waiters, to_worker, from_worker,
                   producer_held, producer, consumer_held, waiting, next, token, wk,
                   calls, sent, lens, frames, replies, done, posts, fixed_vars>>

\* one turn of recv_response's loop: pop_slice(&mut resp[read..])
recv_response_pop(t) ==
    /\ th[t].pc = "recv_pop"
    /\ LET n == pop_n(from_worker, th[t].len - Len(th[t].resp))
           got == th[t].resp \o Take(from_worker, n)
       IN /\ n > 0 \/ Len(got) = th[t].len
          /\ from_worker' = Drop(from_worker, n)
          /\ th' = [th EXCEPT ![t].resp = got,
                              ![t].pc = IF Len(got) = th[t].len THEN "hand_inc" ELSE "recv_pop"]
    /\ UNCHANGED <<notify_worker, notify_owner, to_worker_waiters, to_worker,
                   producer_held, producer, consumer_held, waiting, next, token, wk,
                   calls, sent, lens, frames, replies, done, posts, fixed_vars>>

\* let prev = self.next.fetch_add(1, Release); assert_eq!(id, prev)
hand_off_inc(t) ==
    /\ th[t].pc = "hand_inc"
    /\ next' = (next + 1) % U32
    /\ th' = [th EXCEPT ![t].prev = next,
                        ![t].pc = IF next = th[t].id THEN "hand_lock" ELSE "panic"]
    /\ UNCHANGED <<notify_worker, notify_owner, to_worker_waiters, to_worker, from_worker,
                   producer_held, producer, consumer_held, waiting, token, wk,
                   calls, sent, lens, frames, replies, done, posts, fixed_vars>>

\* hand_off_unpark returning prev.wrapping_add(1) for id
hand_off_unpark_next(t) ==
    /\ th[t].pc = "hand_lock"
    /\ consumer_held = NoThread
    /\ LET u == unpark_front(waiting, (th[t].prev + 1) % U32)
       IN token' = IF u # NoThread THEN [token EXCEPT ![u] = TRUE] ELSE token
    /\ done' = Append(done, [thread |-> t, id |-> (th[t].prev + 1) % U32, req |-> th[t].req,
                             resp |-> th[t].resp, stored |-> th[t].stored])
    /\ th' = [th EXCEPT ![t] = IdleThread]
    /\ UNCHANGED <<notify_worker, notify_owner, to_worker_waiters, to_worker, from_worker,
                   producer_held, producer, consumer_held, waiting, next, wk,
                   calls, sent, lens, frames, replies, posts, fixed_vars>>

\* self.consumer.lock(); g.waiting.unpark_front(prev.wrapping_add(1)); the
\* guard is dropped and request_response returns id
hand_off_unpark(t) ==
    /\ th[t].pc = "hand_lock"
    /\ consumer_held = NoThread
    /\ LET u == unpark_front(waiting, (th[t].prev + 1) % U32)
       IN token' = IF u # NoThread THEN [token EXCEPT ![u] = TRUE] ELSE token
    /\ done' = Append(done, [thread |-> t, id |-> th[t].id, req |-> th[t].req,
                             resp |-> th[t].resp, stored |-> th[t].stored])
    /\ th' = [th EXCEPT ![t] = IdleThread]
    /\ UNCHANGED <<notify_worker, notify_owner, to_worker_waiters, to_worker, from_worker,
                   producer_held, producer, consumer_held, waiting, next, wk,
                   calls, sent, lens, frames, replies, posts, fixed_vars>>

(***************************************************************************)
(* OwnedResponder, and the worker's loop around it: read_next_frame_len,   *)
(* the payload through read or read_exact, then one write_all of the       *)
(* first bytes of the payload, as many as the owner expects.               *)
(***************************************************************************)
IdleWorker == [pc |-> "app_len", remaining |-> None, ctx |-> "hdr", buf |-> <<>>,
               need |-> 0, more |-> 0, can_wait |-> FALSE, waited |-> FALSE,
               saw_zero |-> FALSE, payload |-> <<>>, out |-> <<>>, ret |-> None]

\* self.recv(buf, read_more_than, can_wait) is entered from ctx with a
\* buffer of `need` bytes
enter_recv(w, ctx, need, more, can_wait) ==
    [w EXCEPT !.pc = "recv_pop", !.ctx = ctx, !.buf = <<>>, !.need = need, !.more = more,
              !.can_wait = can_wait, !.waited = FALSE, !.saw_zero = FALSE]

\* usize, scaled as u32 is
USIZE == U32

\* may the worker call a method of OwnedResponder now: it asks for a length
\* between frames ("app_len") and for the payload with a frame announced
\* ("app_body"); a worker that probes also asks for a length with a frame
\* announced
MayCall(method) ==
    \/ method = "read_next_frame_len" /\ wk.pc = "app_len"
    \/ method = "read_next_frame_len" /\ wk.pc = "app_body" /\ run.probe
    \/ method \in {"read", "read_exact"} /\ wk.pc = "app_body"

\* read_next_frame_len that returns the length of the frame in progress
read_next_frame_len_err_len ==
    /\ MayCall("read_next_frame_len")
    /\ wk' = IF wk.remaining # None
             THEN [wk EXCEPT !.pc = "err", !.ret = <<"Err", wk.remaining[1]>>]
             ELSE enter_recv(wk, "hdr", 8, 7, TRUE)
    /\ UNCHANGED <<notify_worker, notify_owner, to_worker_waiters, to_worker, from_worker,
                   producer_held, producer, consumer_held, waiting, next, token, th,
                   calls, sent, lens, frames, replies, done, posts, fixed_vars>>

\* read_next_frame_len: Err(remaining) with a frame in progress, else
\* read(&mut []), whose first part reads the 8 bytes of the length.  Err is
\* where the worker ends ("err"): no call changes remaining = Some((0, 0)) any
\* more, so every further call returns it too.
read_next_frame_len ==
    /\ MayCall("read_next_frame_len")
    /\ wk' = IF wk.remaining # None
             THEN [wk EXCEPT !.pc = "err", !.ret = <<"Err", wk.remaining[2]>>]
             ELSE enter_recv(wk, "hdr", 8, 7, TRUE)
    /\ UNCHANGED <<notify_worker, notify_owner, to_worker_waiters, to_worker, from_worker,
                   producer_held, producer, consumer_held, waiting, next, token, th,
                   calls, sent, lens, frames, replies, done, posts, fixed_vars>>

\* read(buf) with a frame in progress and b = buf.len() > 0:
\* recv(&mut buf[..min(b, remaining)], 0, false); a worker that probes calls
\* it with nothing left of the frame too
read(b) ==
    /\ MayCall("read")
    /\ wk.remaining[2] > 0 \/ run.probe
    /\ wk' = enter_recv(wk, "read", Min(b, wk.remaining[2]), 0, FALSE)
    /\ UNCHANGED <<notify_worker, notify_owner, to_worker_waiters, to_worker, from_worker,
                   producer_held, producer, consumer_held, waiting, next, token, th,
                   calls, sent, lens, frames, replies, done, posts, fixed_vars>>

\* read_exact(buf) with buf.len() >= remaining:
\* recv(&mut buf[..remaining], remaining as usize - 1, false); a worker that
\* probes calls it with nothing left of the frame too, where the subtraction
\* panics in a build with overflow checks and wraps in one without
read_exact ==
    /\ MayCall("read_exact")
    /\ wk.remaining[2] > 0 \/ run.probe
    /\ \/ wk' = enter_recv(wk, "exact", wk.remaining[2], (wk.remaining[2] - 1) % USIZE, FALSE)
       \/ wk.remaining[2] = 0 /\ wk' = [wk EXCEPT !.pc = "panic", !.ctx = "exact"]
    /\ UNCHANGED <<notify_worker, notify_owner, to_worker_waiters, to_worker, from_worker,
                   producer_held, producer, consumer_held, waiting, next, token, th,
                   calls, sent, lens, frames, replies, done, posts, fixed_vars>>

\* A frame of length 0 leaves remaining = Some((0, 0)): read(&mut []) returns before the
\* frame is cleared.  The worker has nothing to read and goes on to reply ("app_write");
\* or it calls read_exact, whose `remaining as usize - 1` panics with overflow checks and
\* wraps without them, so that recv never returns ("hang"); or it calls read with a
\* non-empty buffer, whose recv(&mut buf[..0], 0, false) never returns.
empty_frame(outcome) ==
    /\ wk.pc = "app_body"
    /\ wk.remaining[2] = 0
    /\ outcome \in run.outcomes
    /\ wk' = [wk EXCEPT !.pc = outcome]
    /\ frames' = IF outcome = "app_write" THEN Append(frames, <<wk.remaining[1], <<>>>>)
                 ELSE frames
    /\ UNCHANGED <<notify_worker, notify_owner, to_worker_waiters, to_worker, from_worker,
                   producer_held, producer, consumer_held, waiting, next, token, th,
                   calls, sent, lens, replies, done, posts, fixed_vars>>

\* after_recv with the length stored before the upper four bytes are checked
after_recv_len_first(w, got) ==
    CASE w.ctx = "hdr" ->
           \* assert_eq!(&raw[4..], &[0, 0, 0, 0]); remaining = Some((len, len));
           \* buf.is_empty(), so read returns 0 and read_next_frame_len Ok(len)
           IF UpperIsZero(got)
           THEN [w EXCEPT !.pc = "app_body", !.buf = <<>>, !.payload = <<>>,
                          !.remaining = <<from_ne_bytes(got), from_ne_bytes(got)>>,
                          !.ret = <<"Ok", from_ne_bytes(got)>>]
           ELSE [w EXCEPT !.pc = "panic", !.buf = <<>>,
                          !.remaining = <<from_ne_bytes(got), from_ne_bytes(got)>>]
      [] w.ctx = "read" ->
           \* remaining.checked_sub(read); None when it reaches 0
           IF Len(got) > w.remaining[2] THEN [w EXCEPT !.pc = "panic", !.buf = <<>>]
           ELSE IF w.remaining[2] - Len(got) = 0
           THEN [w EXCEPT !.pc = "app_write", !.buf = <<>>, !.remaining = None,
                          !.payload = w.payload \o got]
           ELSE [w EXCEPT !.pc = "app_body", !.buf = <<>>,
                          !.remaining = <<w.remaining[1], w.remaining[2] - Len(got)>>,
                          !.payload = w.payload \o got]
      [] OTHER ->
           \* read_exact: assert_eq!(read, remaining); remaining = None
           IF Len(got) # w.remaining[2] THEN [w EXCEPT !.pc = "panic", !.buf = <<>>]
           ELSE [w EXCEPT !.pc = "app_write", !.buf = <<>>, !.remaining = None,
                          !.payload = w.payload \o got]

\* what recv's caller does with the bytes recv returned
after_recv(w, got) ==
    CASE w.ctx = "hdr" ->
           \* assert_eq!(&raw[4..], &[0, 0, 0, 0]); remaining = Some((len, len));
           \* buf.is_empty(), so read returns 0 and read_next_frame_len Ok(len)
           IF UpperIsZero(got)
           THEN [w EXCEPT !.pc = "app_body", !.buf = <<>>, !.payload = <<>>,
                          !.remaining = <<from_ne_bytes(got), from_ne_bytes(got)>>,
                          !.ret = <<"Ok", from_ne_bytes(got)>>]
           ELSE [w EXCEPT !.pc = "panic", !.buf = <<>>]
      [] w.ctx = "read" ->
           \* remaining.checked_sub(read); None when it reaches 0
           IF Len(got) > w.remaining[2] THEN [w EXCEPT !.pc = "panic", !.buf = <<>>]
           ELSE IF w.remaining[2] - Len(got) = 0
           THEN [w EXCEPT !.pc = "app_write", !.buf = <<>>, !.remaining = None,
                          !.payload = w.payload \o got]
           ELSE [w EXCEPT !.pc = "app_body", !.buf = <<>>,
                          !.remaining = <<w.remaining[1], w.remaining[2] - Len(got)>>,
                          !.payload = w.payload \o got]
      [] OTHER ->
           \* read_exact: assert_eq!(read, remaining); remaining = None
           IF Len(got) # w.remaining[2] THEN [w EXCEPT !.pc = "panic", !.buf = <<>>]
           ELSE [w EXCEPT !.pc = "app_write", !.buf = <<>>, !.remaining = None,
                          !.payload = w.payload \o got]

\* recv_may_sleep without can_wait
recv_may_sleep_anywhere(w) == ~w.waited

\* may this turn of recv's loop go on to load to_worker_waiters and sleep
recv_may_sleep(w) == ~w.waited /\ w.can_wait

\* recv_pop with pop_slice(&mut buf[..]): every pop writes at the start of buf
recv_pop_at_start ==
    /\ wk.pc = "recv_pop"
    /\ LET n == pop_n(to_worker, wk.need - Len(wk.buf))
           got == Take(to_worker, n) \o wk.buf
           w2 == IF Len(got) > wk.more THEN after_recv(wk, got)
                 ELSE IF recv_may_sleep(wk) THEN [wk EXCEPT !.buf = got, !.pc = "recv_load"]
                 ELSE [wk EXCEPT !.buf = got]
       IN /\ n > 0 \/ Len(got) > wk.more \/ recv_may_sleep(wk)
          /\ to_worker' = Drop(to_worker, n)
          /\ wk' = w2
          /\ frames' = IF w2.pc = "app_write" THEN Append(frames, <<wk.remaining[1], w2.payload>>)
                       ELSE frames
          /\ lens' = IF wk.ctx = "hdr" /\ w2.pc = "app_body" THEN Append(lens, w2.remaining[1])
                     ELSE lens
    /\ UNCHANGED <<notify_worker, notify_owner, to_worker_waiters, from_worker,
                   producer_held, producer, consumer_held, waiting, next, token, th,
                   calls, sent, replies, done, posts, fixed_vars>>

\* one turn of recv's loop: pop_slice(&mut buf[read..]), then return, go to
\* sleep or spin
recv_pop ==
    /\ wk.pc = "recv_pop"
    /\ LET n == pop_n(to_worker, wk.need - Len(wk.buf))
           got == wk.buf \o Take(to_worker, n)
           w2 == IF Len(got) > wk.more THEN after_recv(wk, got)
                 ELSE IF recv_may_sleep(wk) THEN [wk EXCEPT !.buf = got, !.pc = "recv_load"]
                 ELSE [wk EXCEPT !.buf = got]
       IN /\ n > 0 \/ Len(got) > wk.more \/ recv_may_sleep(wk)
          /\ to_worker' = Drop(to_worker, n)
          /\ wk' = w2
          /\ frames' = IF w2.pc = "app_write" THEN Append(frames, <<wk.remaining[1], w2.payload>>)
                       ELSE frames
          /\ lens' = IF wk.ctx = "hdr" /\ w2.pc = "app_body" THEN Append(lens, w2.remaining[1])
                     ELSE lens
    /\ UNCHANGED <<notify_worker, notify_owner, to_worker_waiters, from_worker,
                   producer_held, producer, consumer_held, waiting, next, token, th,
                   calls, sent, replies, done, posts, fixed_vars>>

\* while self.ptr.to_worker_waiters.load(Acquire) == 0 { ... }
recv_load ==
    /\ wk.pc = "recv_load"
    /\ wk' = [wk EXCEPT !.saw_zero = (to_worker_waiters = 0),
                        !.pc = IF to_worker_waiters = 0 THEN "recv_wait" ELSE "recv_pop"]
    /\ UNCHANGED <<notify_worker, notify_owner, to_worker_waiters, to_worker, from_worker,
                   producer_held, producer, consumer_held, waiting, next, token, th,
                   calls, sent, lens, frames, replies, done, posts, fixed_vars>>

\* sem.wait(); waited = true
recv_wait ==
    /\ wk.pc = "recv_wait"
    /\ sem_can_wait(notify_worker)
    /\ notify_worker' = sem_wait(notify_worker)
    /\ wk' = [wk EXCEPT !.waited = TRUE, !.pc = "recv_load"]
    /\ UNCHANGED <<notify_owner, to_worker_waiters, to_worker, from_worker,
                   producer_held, producer, consumer_held, waiting, next, token, th,
                   calls, sent, lens, frames, replies, done, posts, fixed_vars>>

\* the response length the owner of the frame just read expects
ExpectedLen == IF Len(replies) < Len(calls) THEN calls[Len(replies) + 1].len ELSE 0

\* write_all that posts before it pushes, and pushes nothing
write_all_post_unpushed ==
    /\ wk.pc = "app_write"
    /\ LET reply == Take(wk.payload, Min(ExpectedLen, Len(wk.payload)))
       IN /\ wk' = [wk EXCEPT !.pc = "write_post", !.out = reply, !.ret = None]
          /\ replies' = Append(replies, reply)
    /\ UNCHANGED <<notify_worker, notify_owner, to_worker_waiters, to_worker, from_worker,
                   producer_held, producer, consumer_held, waiting, next, token, th,
                   calls, sent, lens, frames, done, posts, fixed_vars>>

\* the worker answers with the first bytes of the payload: write_all(buf)
write_all ==
    /\ wk.pc = "app_write"
    /\ LET reply == Take(wk.payload, Min(ExpectedLen, Len(wk.payload)))
       IN /\ wk' = [wk EXCEPT !.pc = "write_push", !.out = reply, !.ret = None]
          /\ replies' = Append(replies, reply)
    /\ UNCHANGED <<notify_worker, notify_owner, to_worker_waiters, to_worker, from_worker,
                   producer_held, producer, consumer_held, waiting, next, token, th,
                   calls, sent, lens, frames, done, posts, fixed_vars>>

\* write_all_push without buf = &buf[n..]
write_all_push_no_advance ==
    /\ wk.pc = "write_push"
    /\ LET n == push_n(from_worker, FROM_WORKER_LEN, wk.out)
       IN /\ n > 0 \/ wk.out = <<>>
          /\ from_worker' = from_worker \o Take(wk.out, n)
          /\ wk' = [wk EXCEPT !.pc = IF wk.out = <<>> THEN "write_post" ELSE "write_push"]
    /\ UNCHANGED <<notify_worker, notify_owner, to_worker_waiters, to_worker,
                   producer_held, producer, consumer_held, waiting, next, token, th,
                   calls, sent, lens, frames, replies, done, posts, fixed_vars>>

\* write_all that posts after its first push, whatever is left of buf
write_all_push_post_early ==
    /\ wk.pc = "write_push"
    /\ LET n == push_n(from_worker, FROM_WORKER_LEN, wk.out)
           rest == Drop(wk.out, n)
       IN /\ n > 0 \/ rest = <<>>
          /\ from_worker' = from_worker \o Take(wk.out, n)
          /\ wk' = [wk EXCEPT !.out = rest, !.pc = "write_post"]
    /\ UNCHANGED <<notify_worker, notify_owner, to_worker_waiters, to_worker,
                   producer_held, producer, consumer_held, waiting, next, token, th,
                   calls, sent, lens, frames, replies, done, posts, fixed_vars>>

\* one turn of write_all's loop: push_slice(buf)
write_all_push ==
    /\ wk.pc = "write_push"
    /\ LET n == push_n(from_worker, FROM_WORKER_LEN, wk.out)
           rest == Drop(wk.out, n)
       IN /\ n > 0 \/ rest = <<>>
          /\ from_worker' = from_worker \o Take(wk.out, n)
          /\ wk' = [wk EXCEPT !.out = rest,
                              !.pc = IF rest = <<>> THEN "write_post" ELSE "write_push"]
    /\ UNCHANGED <<notify_worker, notify_owner, to_worker_waiters, to_worker,
                   producer_held, producer, consumer_held, waiting, next, token, th,
                   calls, sent, lens, frames, replies, done, posts, fixed_vars>>

\* if USE_EVENTFD_ON_RESPONSE { sem.post() }
write_all_post ==
    /\ wk.pc = "write_post"
    /\ notify_owner' = IF USE_EVENTFD_ON_RESPONSE THEN sem_post(notify_owner) ELSE notify_owner
    /\ posts' = IF USE_EVENTFD_ON_RESPONSE
                THEN log_post("notify_owner", Len(replies), "written")
                ELSE posts
    /\ wk' = [wk EXCEPT !.pc = "write_dec"]
    /\ UNCHANGED <<notify_worker, to_worker_waiters, to_worker, from_worker,
                   producer_held, producer, consumer_held, waiting, next, token, th,
                   calls, sent, lens, frames, replies, done, fixed_vars>>

\* write_all that returns len without the fetch_sub
write_all_dec_none ==
    /\ wk.pc = "write_dec"
    /\ wk' = [wk EXCEPT !.pc = "app_len", !.payload = <<>>]
    /\ UNCHANGED <<notify_worker, notify_owner, to_worker_waiters, to_worker, from_worker,
                   producer_held, producer, consumer_held, waiting, next, token, th,
                   calls, sent, lens, frames, replies, done, posts, fixed_vars>>

\* write_all with fetch_add in place of fetch_sub
write_all_dec_add ==
    /\ wk.pc = "write_dec"
    /\ to_worker_waiters' = (to_worker_waiters + 1) % U32
    /\ wk' = [wk EXCEPT !.pc = "app_len", !.payload = <<>>]
    /\ UNCHANGED <<notify_worker, notify_owner, to_worker, from_worker,
                   producer_held, producer, consumer_held, waiting, next, token, th,
                   calls, sent, lens, frames, replies, done, posts, fixed_vars>>

\* self.ptr.to_worker_waiters.fetch_sub(1, Release); return len
write_all_dec ==
    /\ wk.pc = "write_dec"
    /\ to_worker_waiters' = (to_worker_waiters - 1) % U32
    /\ wk' = [wk EXCEPT !.pc = "app_len", !.payload = <<>>]
    /\ UNCHANGED <<notify_worker, notify_owner, to_worker, from_worker,
                   producer_held, producer, consumer_held, waiting, next, token, th,
                   calls, sent, lens, frames, replies, done, posts, fixed_vars>>

(***************************************************************************)
(* The region: create and initialize_at in the owner process,              *)
(* open_existing and join_initialized_at in the worker process, and the    *)
(* drop of a SharedMemPipePtr in either.                                   *)
(***************************************************************************)
MAGIC_INIT == <<0, 0>>
\* 0xcafe_babe and 0xffff_ffff as their two 16-bit halves
MAGIC_READY == <<51966, 47806>>
MAGIC_TOMBSTONE == <<65535, 65535>>

OWNER_PID == 1
WORKER_PID == 2
\* a second process that calls open_existing on the same object
WORKER2_PID == 3
Workers == {WORKER_PID, WORKER2_PID}
Procs == {OWNER_PID} \cup Workers

EventFds == {"notify_worker", "notify_owner"}

Range(s) == {s[i] : i \in 1..Len(s)}

\* the order in which initialize_at writes the fields
InitOrder == <<"magic", "notify_worker", "notify_owner", "participants",
               "to_worker_waiters", "to_worker", "from_worker">>

NoHandle == [stage |-> "none", close_semaphores |-> FALSE, tombstone_on_drop |-> FALSE,
             munmap |-> FALSE]

post_mmap == [stage |-> "MMapped", close_semaphores |-> FALSE, tombstone_on_drop |-> TRUE,
              munmap |-> TRUE]

post_init_created(h) == [stage |-> "Created", close_semaphores |-> TRUE,
                         tombstone_on_drop |-> TRUE, munmap |-> h.munmap]

\* a Joined handle that keeps the tombstone_on_drop of post_mmap
post_init_joined_tombstone(h) == [stage |-> "Joined", close_semaphores |-> TRUE,
                                  tombstone_on_drop |-> h.tombstone_on_drop,
                                  munmap |-> h.munmap]

post_init_joined(h) == [stage |-> "Joined", close_semaphores |-> TRUE,
                        tombstone_on_drop |-> FALSE, munmap |-> h.munmap]

\* step: the field initialize_at writes next; polls: iterations of the poll loop
\* done; read: what the last of them loaded from magic; result: what open_existing
\* returns; attaches: its calls so far
IdleProc == [pc |-> "start", handle |-> NoHandle, step |-> 1, polls |-> 0,
             read |-> MAGIC_INIT, result |-> "none", attaches |-> 0]

\* the steps of the region's life leave the pipe's ends alone
life_unchanged == UNCHANGED <<pipe_vars, run, obs, spinwait>>

\* create up to the call of initialize_at: the two eventfds, shm_open with
\* O_CREAT | O_TRUNC, set_len, mmap, post_mmap.  The object is new and reads 0.
create ==
    /\ OWNER_PID \in run.procs
    /\ proc[OWNER_PID].pc = "start"
    /\ proc' = [proc EXCEPT ![OWNER_PID].pc = "init", ![OWNER_PID].handle = post_mmap]
    /\ region' = [exists |-> TRUE, inited |-> {}, mapped |-> region.mapped \cup {OWNER_PID}]
    /\ fds' = [fds EXCEPT ![OWNER_PID] = EventFds]
    /\ magic' = MAGIC_INIT
    /\ UNCHANGED <<participants, stores, closes, acquires>>
    /\ life_unchanged

\* initialize_at_write with the ready value as the first value of magic
initialize_at_write_ready_first ==
    /\ proc[OWNER_PID].pc = "init"
    /\ LET f == InitOrder[proc[OWNER_PID].step]
           last == proc[OWNER_PID].step = Len(InitOrder)
       IN /\ region' = [region EXCEPT !.inited = @ \cup {f}]
          /\ magic' = IF f = "magic" THEN MAGIC_READY ELSE magic
          /\ stores' = IF f = "magic"
                       THEN Append(stores, [by |-> OWNER_PID, stage |-> proc[OWNER_PID].handle.stage,
                                            old |-> magic, new |-> MAGIC_READY])
                       ELSE stores
          /\ participants' = IF f = "participants" THEN <<0, 0>> ELSE participants
          /\ proc' = [proc EXCEPT ![OWNER_PID].step = IF last THEN @ ELSE @ + 1,
                                  ![OWNER_PID].pc = IF last THEN "publish" ELSE "init"]
    /\ UNCHANGED <<fds, closes, acquires>>
    /\ life_unchanged

\* initialize_at writes its next field; the first is magic.write(AtomicU32::new(0))
initialize_at_write ==
    /\ proc[OWNER_PID].pc = "init"
    /\ LET f == InitOrder[proc[OWNER_PID].step]
           last == proc[OWNER_PID].step = Len(InitOrder)
       IN /\ region' = [region EXCEPT !.inited = @ \cup {f}]
          /\ magic' = IF f = "magic" THEN MAGIC_INIT ELSE magic
          /\ stores' = IF f = "magic"
                       THEN Append(stores, [by |-> OWNER_PID, stage |-> proc[OWNER_PID].handle.stage,
                                            old |-> magic, new |-> MAGIC_INIT])
                       ELSE stores
          /\ participants' = IF f = "participants" THEN <<0, 0>> ELSE participants
          /\ proc' = [proc EXCEPT ![OWNER_PID].step = IF last THEN @ ELSE @ + 1,
                                  ![OWNER_PID].pc = IF last THEN "publish" ELSE "init"]
    /\ UNCHANGED <<fds, closes, acquires>>
    /\ life_unchanged

\* let res = res.post_init_created(); res.magic.store(0xcafebabe, SeqCst); Ok(res)
initialize_at_publish ==
    /\ proc[OWNER_PID].pc = "publish"
    /\ magic' = MAGIC_READY
    /\ stores' = Append(stores, [by |-> OWNER_PID, stage |-> "Created",
                                 old |-> magic, new |-> MAGIC_READY])
    /\ proc' = [proc EXCEPT ![OWNER_PID].pc = "ready",
                            ![OWNER_PID].handle = post_init_created(@)]
    /\ UNCHANGED <<participants, region, fds, closes, acquires>>
    /\ life_unchanged

\* open_existing up to the call of join_initialized_at: shm_open without O_CREAT
\* succeeds on an object that exists, mmap, post_mmap.  The worker process was
\* started with the eventfds its parent had open.
open_existing(w) ==
    /\ w \in run.procs
    /\ proc[w].pc = "start"
    /\ proc[w].attaches < NAttach
    /\ region.exists
    /\ proc' = [proc EXCEPT ![w].pc = "poll", ![w].handle = post_mmap,
                            ![w].polls = 0, ![w].read = MAGIC_INIT,
                            ![w].result = "none",
                            ![w].attaches = @ + 1]
    /\ region' = [region EXCEPT !.mapped = @ \cup {w}]
    /\ fds' = [fds EXCEPT ![w] = IF proc[w].attaches = 0
                                          THEN fds[OWNER_PID] ELSE @]
    /\ UNCHANGED <<magic, participants, stores, closes, acquires>>
    /\ life_unchanged

\* a loop that takes every value but 0xcafebabe for "not yet"
join_initialized_at_until_ready(w) ==
    /\ proc[w].pc = "poll"
    /\ proc[w].polls < JOIN_POLLS
    /\ LET polls == proc[w].polls + 1
       IN proc' = [proc EXCEPT
                      ![w].polls = polls,
                      ![w].read = magic,
                      ![w].result =
                          IF magic = MAGIC_READY THEN "ok"
                          ELSE IF polls = JOIN_POLLS THEN "timeout" ELSE "none",
                      ![w].handle =
                          IF magic = MAGIC_READY THEN post_init_joined(@) ELSE @,
                      ![w].pc =
                          IF magic = MAGIC_READY THEN "ready"
                          ELSE IF polls = JOIN_POLLS THEN "drop_close" ELSE "poll"]
    /\ UNCHANGED <<magic, participants, region, fds, stores, closes, acquires>>
    /\ life_unchanged

\* one turn of join_initialized_at's loop, magic.load(SeqCst): 0 sleeps and goes
\* on, and after the last turn returns the timeout error; 0xcafebabe returns
\* res.post_init_joined(); anything else returns the unknown magic error.  An
\* error return drops res.
join_initialized_at(w) ==
    /\ proc[w].pc = "poll"
    /\ proc[w].polls < JOIN_POLLS
    /\ LET polls == proc[w].polls + 1
       IN proc' = [proc EXCEPT
                      ![w].polls = polls,
                      ![w].read = magic,
                      ![w].result =
                          IF magic = MAGIC_INIT
                          THEN (IF polls = JOIN_POLLS THEN "timeout" ELSE "none")
                          ELSE IF magic = MAGIC_READY THEN "ok" ELSE "unknown",
                      ![w].handle =
                          IF magic = MAGIC_READY THEN post_init_joined(@) ELSE @,
                      ![w].pc =
                          IF magic = MAGIC_INIT
                          THEN (IF polls = JOIN_POLLS THEN "drop_close" ELSE "poll")
                          ELSE IF magic = MAGIC_READY THEN "ready" ELSE "drop_close"]
    /\ UNCHANGED <<magic, participants, region, fds, stores, closes, acquires>>
    /\ life_unchanged

\* the processes with a handle of the stage of p's that can call try_acquire
Rivals(p) == {q \in Procs \ {p} : proc[q].pc = "ready" /\ proc[q].handle.stage = proc[p].handle.stage}

\* participants[slot - 1].store(std::process::id()) in the place of the
\* compare_exchange
store_pid(p, slot) ==
    /\ participants' = [participants EXCEPT ![slot] = p]
    /\ proc' = [proc EXCEPT ![p].pc = "acquired"]
    /\ acquires' = Append(acquires, [by |-> p, slot |-> slot, ok |-> TRUE,
                                     old |-> participants[slot],
                                     new |-> participants'[slot], rivals |-> Rivals(p)])

\* participants[slot - 1].compare_exchange(0, std::process::id()) by process p,
\* which gave self away: Ok keeps it in the Owned end, Err returns None and
\* drops it
compare_exchange(p, slot) ==
    LET ok == participants[slot] = 0
    IN /\ participants' = IF ok THEN [participants EXCEPT ![slot] = p] ELSE participants
       /\ proc' = [proc EXCEPT ![p].pc = IF ok THEN "acquired" ELSE "drop_close"]
       /\ acquires' = Append(acquires, [by |-> p, slot |-> slot, ok |-> ok,
                                        old |-> participants[slot],
                                        new |-> participants'[slot], rivals |-> Rivals(p)])

\* SharedMemPipePtr<Created>::try_acquire_requester
try_acquire_requester ==
    /\ proc[OWNER_PID].pc = "ready"
    /\ proc[OWNER_PID].handle.stage = "Created"
    /\ compare_exchange(OWNER_PID, 1)
    /\ UNCHANGED <<magic, region, fds, stores, closes>>
    /\ life_unchanged

\* SharedMemPipePtr<Joined>::try_acquire_responder in process w
try_acquire_responder(w) ==
    /\ proc[w].pc = "ready"
    /\ proc[w].handle.stage = "Joined"
    /\ compare_exchange(w, 2)
    /\ UNCHANGED <<magic, region, fds, stores, closes>>
    /\ life_unchanged

\* Drop for SharedMemPipePtr, of the handle process p holds (in its Owned end
\* once acquired) or of the res an error return of join_initialized_at drops:
\* if self.close_semaphores { File::from_raw_fd(fd) for both fds, dropped at once }
drop_close(p) ==
    /\ proc[p].pc \in {"ready", "acquired", "drop_close"}
    /\ LET h == proc[p].handle
       IN /\ fds' = IF h.close_semaphores THEN [fds EXCEPT ![p] = @ \ EventFds] ELSE fds
          /\ closes' = IF h.close_semaphores THEN Append(closes, [by |-> p, stage |-> h.stage])
                       ELSE closes
    /\ proc' = [proc EXCEPT ![p].pc = "drop_tombstone"]
    /\ UNCHANGED <<magic, participants, region, stores, acquires>>
    /\ life_unchanged

\* if self.tombstone_on_drop { shared.magic.store(0xffff_ffff, SeqCst) }
drop_tombstone(p) ==
    /\ proc[p].pc = "drop_tombstone"
    /\ LET h == proc[p].handle
       IN /\ magic' = IF h.tombstone_on_drop THEN MAGIC_TOMBSTONE ELSE magic
          /\ stores' = IF h.tombstone_on_drop
                       THEN Append(stores, [by |-> p, stage |-> h.stage,
                                            old |-> magic, new |-> MAGIC_TOMBSTONE])
                       ELSE stores
    /\ proc' = [proc EXCEPT ![p].pc = "drop_munmap"]
    /\ UNCHANGED <<participants, region, fds, closes, acquires>>
    /\ life_unchanged

\* if self.munmap { munmap(ptr, size) }; the owner process is done, the worker
\* process may call open_existing again
drop_munmap(p) ==
    /\ proc[p].pc = "drop_munmap"
    /\ region' = IF proc[p].handle.munmap THEN [region EXCEPT !.mapped = @ \ {p}] ELSE region
    /\ proc' = [proc EXCEPT ![p].handle = NoHandle,
                            ![p].pc = IF p \in Workers THEN "start" ELSE "gone"]
    /\ UNCHANGED <<magic, participants, fds, stores, closes, acquires>>
    /\ life_unchanged

(***************************************************************************)
(* The pipe in use: the region is created and attached, both ends are      *)
(* acquired.                                                               *)
(***************************************************************************)
\* SpinWait::default(), with nothing called yet
DefaultSpinWait == [n |-> 0, hints |-> 0, yielded |-> FALSE, last |-> "default", polls |-> 0]

NoObs == [op |-> "none", arg |-> 0, heap |-> <<>>, result |-> NoThread]

\* the ends of a pipe on which first calls have been made and have returned
InitPipeAt(first) ==
    /\ notify_worker = 0
    /\ notify_owner = 0
    /\ to_worker_waiters = 0
    /\ to_worker = <<>>
    /\ from_worker = <<>>
    /\ producer_held = NoThread
    /\ producer = first
    /\ consumer_held = NoThread
    /\ waiting = <<>>
    /\ next = first
    /\ token = [t \in Threads |-> FALSE]
    /\ th = [t \in Threads |-> IdleThread]
    /\ wk = IdleWorker
    /\ calls = <<>>
    /\ sent = <<>>
    /\ lens = <<>>
    /\ frames = <<>>
    /\ replies = <<>>
    /\ done = <<>>
    /\ obs = NoObs
    /\ spinwait = DefaultSpinWait
    /\ posts = [notify_worker |-> [k \in 1..MaxCalls |-> <<>>],
                notify_owner |-> [j \in 1..MaxCalls |-> <<>>],
                pre |-> <<>>]

InitPipe == InitPipeAt(0)

\* create has returned in the owner process and open_existing in the worker
\* process, both ends are acquired and first calls have returned
InitReadyAt(first) ==
    /\ InitPipeAt(first)
    /\ magic = MAGIC_READY
    /\ participants = <<OWNER_PID, WORKER_PID>>
    /\ proc = [p \in Procs |->
                 CASE p = OWNER_PID ->
                        [IdleProc EXCEPT !.pc = "acquired", !.handle = post_init_created(post_mmap)]
                   [] p = WORKER_PID ->
                        [IdleProc EXCEPT !.pc = "acquired", !.handle = post_init_joined(post_mmap),
                                         !.polls = 1, !.read = MAGIC_READY, !.result = "ok",
                                         !.attaches = 1]
                   [] OTHER -> IdleProc]
    /\ region = [exists |-> TRUE, inited |-> Range(InitOrder),
                 mapped |-> {OWNER_PID, WORKER_PID}]
    /\ fds = [p \in Procs |-> IF p \in {OWNER_PID, WORKER_PID} THEN EventFds ELSE {}]
    /\ stores = <<[by |-> OWNER_PID, stage |-> "MMapped", old |-> MAGIC_INIT, new |-> MAGIC_INIT],
                  [by |-> OWNER_PID, stage |-> "Created", old |-> MAGIC_INIT, new |-> MAGIC_READY]>>
    /\ closes = <<>>
    /\ acquires = <<[by |-> OWNER_PID, slot |-> 1, ok |-> TRUE, old |-> 0, new |-> OWNER_PID,
                     rivals |-> {}],
                    [by |-> WORKER_PID, slot |-> 2, ok |-> TRUE, old |-> 0, new |-> WORKER_PID,
                     rivals |-> {}]>>

InitReady == InitReadyAt(0)

\* what the worker may do with an empty frame
Outcomes == {"app_write", "panic", "hang"}

\* Every thread calls; a request is empty, one byte or MaxLen bytes (a frame that fits
\* the to-worker ring or not) and is answered with as many of its bytes as fit the
\* from-worker ring.
Init ==
    /\ InitReady
    /\ run = [threads |-> TwoThreads, calls |-> MaxCalls, spurious |-> TRUE, log |-> FALSE, probe |-> FALSE, procs |-> {OWNER_PID, WORKER_PID},
              reqs |-> [t \in Threads |-> {ReqOf(t, l) : l \in {0, 1, MaxLen}}],
              resp |-> "fit", outcomes |-> Outcomes]

\* Two calls; a request of any length up to MaxLen, answered with any number of its
\* bytes by a worker that goes on to reply after an empty frame.
InitEcho ==
    /\ InitReady
    /\ run = [threads |-> TwoThreads, calls |-> EchoCalls, spurious |-> TRUE, log |-> FALSE, probe |-> FALSE, procs |-> {OWNER_PID, WORKER_PID},
              reqs |-> [t \in Threads |-> {ReqOf(t, l) : l \in 0..MaxLen}],
              resp |-> "any", outcomes |-> {"app_write"}]

\* FairCalls calls of the workload of Init, by a worker that goes on to reply after an
\* empty frame
InitFair ==
    /\ InitReady
    /\ run = [threads |-> TwoThreads, calls |-> FairCalls, spurious |-> TRUE, log |-> FALSE, probe |-> FALSE, procs |-> {OWNER_PID, WORKER_PID},
              reqs |-> [t \in Threads |-> {ReqOf(t, l) : l \in {0, 1, MaxLen}}],
              resp |-> "fit", outcomes |-> {"app_write"}]

\* FairCalls calls; a request is empty, as long as the from-worker ring or MaxLen
\* bytes, and is answered with all its bytes
InitFairAll ==
    /\ InitReady
    /\ run = [threads |-> TwoThreads, calls |-> FairCalls, spurious |-> TRUE, log |-> FALSE, probe |-> FALSE, procs |-> {OWNER_PID, WORKER_PID},
              reqs |-> [t \in Threads |-> {ReqOf(t, l) : l \in {0, FROM_WORKER_LEN, MaxLen}}],
              resp |-> "all", outcomes |-> {"app_write"}]

Owner(t) ==
    \/ \E l \in 0..MaxLen : \E n \in 0..l : send_request_lock(t, ReqOf(t, l), n)
    \/ send_request_push(t)
    \/ send_request_post_full(t)
    \/ send_request_post(t)
    \/ turn_load(t)
    \/ turn_recheck(t)
    \/ park_while(t)
    \/ park(t)
    \/ recv_response_wait(t)
    \/ recv_response_pop(t)
    \/ hand_off_inc(t)
    \/ hand_off_unpark(t)

Worker ==
    \/ read_next_frame_len
    \/ \E b \in 1..MaxLen : read(b)
    \/ read_exact
    \/ \E o \in Outcomes : empty_frame(o)
    \/ recv_pop
    \/ recv_load
    \/ recv_wait
    \/ write_all
    \/ write_all_push
    \/ write_all_post
    \/ write_all_dec

Next ==
    \/ \E t \in Threads : Owner(t)
    \/ \E t \in Threads : park_spurious(t)
    \/ Worker

Spec == Init /\ [][Next]_vars

SpecEcho == InitEcho /\ [][Next]_vars

\* One thread makes MaxCalls calls, one after the other; the posts are recorded.
InitSingle ==
    /\ InitReady
    /\ run = [threads |-> {1}, calls |-> MaxCalls, spurious |-> FALSE, log |-> TRUE, probe |-> FALSE, procs |-> {OWNER_PID, WORKER_PID},
              reqs |-> [t \in Threads |-> {ReqOf(t, l) : l \in {0, 1, MaxLen}}],
              resp |-> "fit", outcomes |-> {"app_write"}]

\* request_response in a thread that is alone: next is its ticket when it loads
\* it, so it neither takes the consumer mutex before its receive phase nor parks
OwnerAlone(t) ==
    \/ \E l \in 0..MaxLen : \E n \in 0..l : send_request_lock(t, ReqOf(t, l), n)
    \/ send_request_push(t)
    \/ send_request_post_full(t)
    \/ send_request_post(t)
    \/ turn_load(t)
    \/ recv_response_wait(t)
    \/ recv_response_pop(t)
    \/ hand_off_inc(t)
    \/ hand_off_unpark(t)

NextSingle ==
    \/ \E t \in Threads : OwnerAlone(t)
    \/ Worker

SpecSingle == InitSingle /\ [][NextSingle]_vars

\* the lone thread asks for replies as long as its requests: one of
\* FROM_WORKER_LEN bytes fills the from-worker ring, one of MaxLen bytes takes
\* more than one push
InitReply ==
    /\ InitReady
    /\ run = [threads |-> {1}, calls |-> MaxCalls, spurious |-> FALSE, log |-> TRUE, probe |-> FALSE, procs |-> {OWNER_PID, WORKER_PID},
              reqs |-> [t \in Threads |-> {ReqOf(t, l) : l \in {0, FROM_WORKER_LEN, MaxLen}}],
              resp |-> "all", outcomes |-> {"app_write"}]

SpecReply == InitReply /\ [][NextSingle]_vars

\* the lone thread's calls are served by a worker that probes: it calls
\* read_next_frame_len, read and read_exact whenever a frame has been
\* announced, whatever is left of it
InitProbe ==
    /\ InitReady
    /\ run = [threads |-> {1}, calls |-> MaxCalls, spurious |-> FALSE, log |-> FALSE, probe |-> TRUE, procs |-> {OWNER_PID, WORKER_PID},
              reqs |-> [t \in Threads |-> {ReqOf(t, l) : l \in {0, 1, MaxLen}}],
              resp |-> "fit", outcomes |-> {"app_write"}]

SpecProbe == InitProbe /\ [][NextSingle]_vars

\* the frames pushed by hand: a length of 0 or 1 and as many payload bytes, or
\* a length with one of its upper four bytes set, followed by a byte
InjectedFrames ==
    {to_ne_bytes(l) \o ReqOf(1, l) : l \in {0, 1}}
        \cup {SubSeq(to_ne_bytes(l), 1, 4) \o upper \o ReqOf(1, 1) :
                 l \in {0, 1}, upper \in {<<1, 0, 0, 0>>, <<0, 0, 0, 1>>}}

\* a producer of the to-worker ring that is not send_request pushes the
\* bytes of a frame, counts itself in to_worker_waiters and posts
\* notify_worker
inject(frame) ==
    /\ frame \in InjectedFrames
    /\ Len(sent) < MaxInject * Len(to_ne_bytes(0))
    /\ push_n(to_worker, TO_WORKER_LEN, frame) = Len(frame)
    /\ to_worker' = to_worker \o frame
    /\ sent' = sent \o frame
    /\ to_worker_waiters' = (to_worker_waiters + 1) % U32
    /\ notify_worker' = sem_post(notify_worker)
    /\ UNCHANGED <<notify_owner, from_worker, producer_held, producer, consumer_held,
                   waiting, next, token, th, wk, calls, lens, frames, replies, done,
                   posts, fixed_vars>>

\* nobody calls request_response: the frames the worker reads are pushed by hand
InitInject ==
    /\ InitReady
    /\ run = [threads |-> {}, calls |-> 0, spurious |-> FALSE, log |-> FALSE, probe |-> FALSE, procs |-> {OWNER_PID, WORKER_PID},
              reqs |-> [t \in Threads |-> {}],
              resp |-> "fit", outcomes |-> {"app_write"}]

NextInject ==
    \/ \E frame \in InjectedFrames : inject(frame)
    \/ Worker

SpecInject == InitInject /\ [][NextInject]_vars

\* U32 - 2 calls have returned, so that the ticket counter wraps with the third
\* of the next calls; the first thread calls with requests of MaxLen bytes, the
\* second of one byte and the third of none; the history is that of the new
\* calls.
InitWrap ==
    /\ InitReadyAt(U32 - 2)
    /\ run = [threads |-> Threads, calls |-> MaxCalls, spurious |-> TRUE, log |-> FALSE, probe |-> FALSE,
              procs |-> {OWNER_PID, WORKER_PID},
              reqs |-> [t \in Threads |-> {ReqOf(t, IF t = 1 THEN MaxLen ELSE IF t = 2 THEN 1 ELSE 0)}],
              resp |-> "fit", outcomes |-> {"app_write"}]

SpecWrap == InitWrap /\ [][Next]_vars

\* Nothing exists yet: no object, no handle, no eventfd; memory of a new object
\* reads 0.  Nobody uses the pipe.
InitLife ==
    /\ InitPipe
    /\ magic = MAGIC_INIT
    /\ participants = <<0, 0>>
    /\ proc = [p \in Procs |-> IdleProc]
    /\ region = [exists |-> FALSE, inited |-> {}, mapped |-> {}]
    /\ fds = [p \in Procs |-> {}]
    /\ stores = <<>>
    /\ closes = <<>>
    /\ acquires = <<>>
    /\ run = [threads |-> {}, calls |-> 0, spurious |-> FALSE, log |-> FALSE, probe |-> FALSE, procs |-> {OWNER_PID, WORKER_PID},
              reqs |-> [t \in Threads |-> {}], resp |-> "fit", outcomes |-> {}]

NextLife ==
    \/ create
    \/ initialize_at_write
    \/ initialize_at_publish
    \/ try_acquire_requester
    \/ \E w \in Workers : open_existing(w)
    \/ \E w \in Workers : join_initialized_at(w)
    \/ \E w \in Workers : try_acquire_responder(w)
    \/ \E p \in Procs : drop_close(p)
    \/ \E p \in Procs : drop_tombstone(p)
    \/ \E p \in Procs : drop_munmap(p)

SpecLife == InitLife /\ [][NextLife]_vars

\* create has returned in the owner process; two processes call open_existing
\* and every holder of a handle may call try_acquire
InitAcquire ==
    /\ InitPipe
    /\ magic = MAGIC_READY
    /\ participants = <<0, 0>>
    /\ proc = [p \in Procs |->
                 IF p = OWNER_PID
                 THEN [IdleProc EXCEPT !.pc = "ready", !.handle = post_init_created(post_mmap),
                                       !.step = Len(InitOrder)]
                 ELSE IdleProc]
    /\ region = [exists |-> TRUE, inited |-> Range(InitOrder), mapped |-> {OWNER_PID}]
    /\ fds = [p \in Procs |-> IF p = OWNER_PID THEN EventFds ELSE {}]
    /\ stores = <<[by |-> OWNER_PID, stage |-> "MMapped", old |-> MAGIC_INIT, new |-> MAGIC_INIT],
                  [by |-> OWNER_PID, stage |-> "Created", old |-> MAGIC_INIT, new |-> MAGIC_READY]>>
    /\ closes = <<>>
    /\ acquires = <<>>
    /\ run = [threads |-> {}, calls |-> 0, spurious |-> FALSE, log |-> FALSE, probe |-> FALSE, procs |-> Procs,
              reqs |-> [t \in Threads |-> {}], resp |-> "fit", outcomes |-> {}]

NextAcquire ==
    \/ try_acquire_requester
    \/ \E w \in Workers : open_existing(w)
    \/ \E w \in Workers : join_initialized_at(w)
    \/ \E w \in Workers : try_acquire_responder(w)
    \/ \E p \in Procs : drop_close(p)
    \/ \E p \in Procs : drop_tombstone(p)
    \/ \E p \in Procs : drop_munmap(p)

SpecAcquire == InitAcquire /\ [][NextAcquire]_vars

\* every owner thread and the worker process keep being scheduled; a spurious
\* return of park() need never happen
Fairness == (\A t \in Threads : WF_vars(Owner(t))) /\ WF_vars(Worker)

SpecFair == InitFair /\ [][Next]_vars /\ Fairness

SpecFairAll == InitFairAll /\ [][Next]_vars /\ Fairness

SpecWrapFair == InitWrap /\ [][Next]_vars /\ Fairness


(***************************************************************************)
(* UnparkInOrder on its own: store_current, pop_front and unpark_front in  *)
(* any order, on heaps of up to MaxHeap entries with ids up to MaxTicket.  *)
(***************************************************************************)
HeapIds(data) == {data[i][1] : i \in 1..Len(data)}

\* thread t calls store_current(id)
heap_store_current(id, t) ==
    /\ Len(waiting) < MaxHeap
    /\ id \notin HeapIds(waiting)
    /\ waiting' = store_current(waiting, id, t)
    /\ UNCHANGED <<notify_worker, notify_owner, to_worker_waiters, to_worker, from_worker,
                   producer_held, producer, consumer_held, next, token, th, wk,
                   calls, sent, lens, frames, replies, done, posts, fixed_vars>>

\* the thread at the front calls pop_front with its id
heap_pop_front ==
    /\ waiting # <<>>
    /\ pop_front_ok(waiting, waiting[1][1], waiting[1][2])
    /\ waiting' = pop_front(waiting)
    /\ UNCHANGED <<notify_worker, notify_owner, to_worker_waiters, to_worker, from_worker,
                   producer_held, producer, consumer_held, next, token, th, wk,
                   calls, sent, lens, frames, replies, done, posts, fixed_vars>>

\* unpark_front(turn): front.1.unpark() sets the thread's token
heap_unpark_front(turn) ==
    /\ LET u == unpark_front(waiting, turn)
       IN /\ token' = IF u # NoThread THEN [token EXCEPT ![u] = TRUE] ELSE token
          /\ obs' = [op |-> "unpark_front", arg |-> turn, heap |-> waiting, result |-> u]
    /\ UNCHANGED <<notify_worker, notify_owner, to_worker_waiters, to_worker, from_worker,
                   producer_held, producer, consumer_held, waiting, next, th, wk,
                   calls, sent, lens, frames, replies, done, posts, life_vars, run, spinwait>>

\* an empty heap in an OwnedRequester nobody calls
InitHeap ==
    /\ InitReady
    /\ run = [threads |-> {}, calls |-> 0, spurious |-> FALSE, log |-> FALSE, probe |-> FALSE,
              procs |-> {OWNER_PID, WORKER_PID},
              reqs |-> [t \in Threads |-> {}], resp |-> "fit", outcomes |-> {}]

NextHeap ==
    \/ \E id \in 0..MaxTicket : \E t \in Threads : heap_store_current(id, t)
    \/ heap_pop_front
    \/ \E turn \in 0..MaxTicket : heap_unpark_front(turn)

SpecHeap == InitHeap /\ [][NextHeap]_vars

(***************************************************************************)
(* SpinWait on its own: spin() and reset() in any order, up to MaxSpins    *)
(* calls of spin().                                                        *)
(***************************************************************************)
\* spin() without self.0 = 10 in the else branch
spin_uncapped ==
    /\ spinwait.polls < MaxSpins
    /\ LET n == (spinwait.n + 1) % U32
       IN spinwait' = IF n < SPIN_LIMIT
                      THEN [n |-> n, hints |-> 2 ^ n, yielded |-> FALSE, last |-> "spin",
                            polls |-> spinwait.polls + 1]
                      ELSE [n |-> n, hints |-> 0, yielded |-> TRUE, last |-> "spin",
                            polls |-> spinwait.polls + 1]
    /\ UNCHANGED <<pipe_vars, life_vars, run, obs>>

\* self.0 += 1; below 10, 1 << self.0 times spin_loop(); else self.0 = 10 and
\* yield_now()
spin ==
    /\ spinwait.polls < MaxSpins
    /\ LET n == (spinwait.n + 1) % U32
       IN spinwait' = IF n < SPIN_LIMIT
                      THEN [n |-> n, hints |-> 2 ^ n, yielded |-> FALSE, last |-> "spin",
                            polls |-> spinwait.polls + 1]
                      ELSE [n |-> SPIN_LIMIT, hints |-> 0, yielded |-> TRUE, last |-> "spin",
                            polls |-> spinwait.polls + 1]
    /\ UNCHANGED <<pipe_vars, life_vars, run, obs>>

\* self.0 = 0
reset ==
    /\ spinwait' = [spinwait EXCEPT !.n = 0, !.last = "reset"]
    /\ UNCHANGED <<pipe_vars, life_vars, run, obs>>

InitSpin == InitHeap

NextSpin ==
    \/ spin
    \/ reset

SpecSpin == InitSpin /\ [][NextSpin]_vars
(***************************************************************************)
(* Claims about the pipe in use.                                           *)
(***************************************************************************)
\* C1: a call that returned with ticket t received exactly the bytes of the
\* t-th buffer the worker handed to write_all, the reply to the request that
\* was given ticket t by the same thread.
C1_ReplyOfOwnTicket ==
    \A i \in 1..Len(done) :
        LET d == done[i]
        IN /\ d.id + 1 <= Len(replies)
           /\ d.resp = replies[d.id + 1]
           /\ calls[d.id + 1].thread = d.thread
           /\ calls[d.id + 1].req = d.req

\* C1 witness: a thread that arrived before its turn and was put into the
\* wakeup queue has returned with a non-empty reply, and so has the thread
\* served before it.
C1_Witness ==
    \E i, j \in 1..Len(done) :
        /\ done[i].stored /\ done[i].resp # <<>>
        /\ done[j].id + 1 = done[i].id /\ done[j].thread # done[i].thread
        /\ done[j].resp # <<>>

\* C6: no ticket is returned twice, a thread's tickets increase in the order
\* of its calls, and once no call is in progress the tickets returned are
\* exactly 0 .. (number of calls - 1).
C6_TicketsArePermutation ==
    /\ \A i, j \in 1..Len(done) : i # j => done[i].id # done[j].id
    /\ \A i, j \in 1..Len(done) :
           i < j /\ done[i].thread = done[j].thread => done[i].id < done[j].id
    /\ (\A t \in Threads : th[t].pc = "idle") =>
           {done[i].id : i \in 1..Len(done)} = 0..(Len(done) - 1)

\* C6 witness: every thread has returned from a call and one of them from two.
C6_Witness ==
    /\ \A t \in run.threads : \E i \in 1..Len(done) : done[i].thread = t
    /\ \E i, j \in 1..Len(done) : i # j /\ done[i].thread = done[j].thread
    /\ \A t \in Threads : th[t].pc = "idle"

\* the frame of a call: 8 bytes of length, then the payload
FrameOf(c) == to_ne_bytes(Len(c.req)) \o c.req

RECURSIVE FramesOf(_)
FramesOf(cs) == IF cs = <<>> THEN <<>> ELSE FrameOf(cs[1]) \o FramesOf(Tail(cs))

IsPrefix(s, u) == Len(s) <= Len(u) /\ s = Take(u, Len(s))

\* C7: the bytes pushed into the to-worker ring are the whole frames of the
\* calls in ticket order, the last one possibly still being written; the ring
\* holds the end of that stream; the k-th length the worker got and the
\* payload it read after it are those of the call with ticket k.
C7_WholeFramesInTicketOrder ==
    /\ IsPrefix(sent, FramesOf(calls))
    /\ calls # <<>> => IsPrefix(FramesOf(Take(calls, Len(calls) - 1)), sent)
    /\ Len(to_worker) <= Len(sent) /\ to_worker = Drop(sent, Len(sent) - Len(to_worker))
    /\ \A k \in 1..Len(calls) : calls[k].id = k - 1
    /\ Len(lens) <= Len(calls) /\ \A k \in 1..Len(lens) : lens[k] = Len(calls[k].req)
    /\ Len(frames) <= Len(lens)
    /\ \A k \in 1..Len(frames) : frames[k] = <<Len(calls[k].req), calls[k].req>>

\* C7 witness: the worker has read the frames of two threads, the second of
\* which did not fit the ring in one piece.
C7_Witness ==
    /\ Len(frames) >= 2
    /\ calls[1].thread # calls[2].thread
    /\ Len(FrameOf(calls[2])) > TO_WORKER_LEN

\* C8: the worker is about to call notify_worker.wait() only in the read of
\* the 8 length bytes, with can_wait, and right after it loaded 0 from
\* to_worker_waiters; the recv of a payload never leaves its pop loop.
C8_SleepOnlyForLength ==
    /\ wk.pc = "recv_wait" => wk.ctx = "hdr" /\ wk.need = 8 /\ wk.can_wait /\ wk.saw_zero
    /\ wk.pc \in {"recv_load", "recv_wait"} => wk.ctx = "hdr"
    /\ wk.pc \in {"recv_pop", "recv_load", "recv_wait"} /\ wk.ctx # "hdr" => ~wk.can_wait

\* C8 witness: the worker is about to sleep, and not for the first time in
\* this read of a length.
C8_Witness == wk.pc = "recv_wait" /\ wk.waited /\ wk.saw_zero

\* the worker is in recv for the 8 bytes of a length and is about to load
\* to_worker_waiters or to call notify_worker.wait()
SleepingForLength == wk.ctx = "hdr" /\ wk.pc \in {"recv_load", "recv_wait"}

\* C2: when the worker is about to check to_worker_waiters or to wait on
\* notify_worker for the k-th length and the k-th send_request has done its
\* increment, read_next_frame_len eventually returns the k-th length.
C2_NoLostWakeup ==
    \A k \in 1..MaxCalls :
        (SleepingForLength /\ Len(lens) = k - 1 /\ Len(calls) >= k) ~> (Len(lens) >= k)

\* C2 witness: the worker loaded 0 and is about to wait, the owner has since
\* done its increment and has not yet posted.
C2_Witness ==
    /\ wk.pc = "recv_wait" /\ wk.saw_zero
    /\ Len(calls) = Len(lens) + 1
    /\ to_worker_waiters > 0
    /\ notify_worker = 0

\* C3: every call of request_response that has started eventually returns.
C3_EveryCallReturns ==
    \A t \in Threads : (th[t].pc # "idle") ~> (th[t].pc = "idle")

\* C3 witness: the worker, after replying to an empty request, got Err(0) from
\* read_next_frame_len while another call waits for its reply.
C3_Witness ==
    /\ wk.pc = "err" /\ wk.remaining = <<0, 0>>
    /\ \E t \in Threads : th[t].pc = "recv_wait"
    /\ notify_owner = 0

\* the worker is inside write_all
InWriteAll == wk.pc \in {"write_push", "write_post", "write_dec"}

\* the buffer the current write_all was called with
WriteAllBuf == replies[Len(replies)]

\* C4 (amended): a write_all of a buffer no longer than the from-worker ring
\* eventually returns, the owner threads being scheduled.
C4_WriteAllReturnsWhenFits ==
    (InWriteAll /\ Len(WriteAllBuf) <= FROM_WORKER_LEN) ~> (wk.pc = "app_len")

\* C4 witness: write_all cannot push a byte of a buffer that fits the ring,
\* because the ring is still full of the reply before.
C4_Witness ==
    /\ wk.pc = "write_push" /\ wk.out # <<>>
    /\ Len(WriteAllBuf) <= FROM_WORKER_LEN
    /\ Len(from_worker) = FROM_WORKER_LEN

\* C4 as stated: a write_all of a buffer of any length eventually returns.
C4_WriteAllReturns == InWriteAll ~> (wk.pc = "app_len")

\* C5: a call with request R and a response buffer of N <= |R| bytes, answered
\* with the first N bytes of the payload the worker read, returns with R[..N]
\* in the buffer.
C5_EchoRoundTrip ==
    \A i \in 1..Len(done) :
        LET c == calls[done[i].id + 1]
        IN /\ c.thread = done[i].thread /\ c.req = done[i].req
           /\ done[i].resp = Take(c.req, c.len)

\* C5 witness: a call with an empty request has returned, after a call that
\* asked for some but not all of the bytes of its request.
C5_Witness ==
    \E i, j \in 1..Len(done) :
        /\ done[i].req = <<>> /\ done[i].resp = <<>>
        /\ done[j].resp # <<>> /\ Len(done[j].resp) < Len(done[j].req)

(***************************************************************************)
(* Claims about the life of the region.                                    *)
(***************************************************************************)
\* C9: every store that changes magic takes it from 0 to 0xCAFEBABE or from
\* 0xCAFEBABE to 0xFFFFFFFF.
C9_MagicOnlyForward ==
    \A i \in 1..Len(stores) :
        stores[i].old # stores[i].new =>
            \/ stores[i].old = MAGIC_INIT /\ stores[i].new = MAGIC_READY
            \/ stores[i].old = MAGIC_READY /\ stores[i].new = MAGIC_TOMBSTONE

\* C9 witness: open_existing timed out and the drop of its handle has put
\* 0xFFFFFFFF over the 0 of a region whose initialization is not complete.
C9_Witness ==
    /\ proc[WORKER_PID].result = "timeout"
    /\ proc[OWNER_PID].pc \in {"init", "publish"}
    /\ magic = MAGIC_TOMBSTONE

\* C10: no store to magic is made by the worker process, and 0xFFFFFFFF is
\* stored only by the drop of the handle create returned.
C10_WorkerNeverStoresMagic ==
    \A i \in 1..Len(stores) :
        /\ stores[i].by # WORKER_PID
        /\ stores[i].new = MAGIC_TOMBSTONE => stores[i].stage = "Created"

\* C10 witness: open_existing failed with the unknown magic error on a region
\* its owner has dropped, and the drop of its handle has stored to magic.
C10_Witness ==
    /\ proc[WORKER_PID].result = "unknown"
    /\ proc[WORKER_PID].pc = "drop_munmap"
    /\ proc[OWNER_PID].pc = "gone"
    /\ \E i \in 1..Len(stores) : stores[i].by = WORKER_PID

\* C11: open_existing makes at most 1,000 polls of magic; while it polls, every
\* poll so far has read 0; it returns a worker-side handle on the poll that
\* reads 0xCAFEBABE, the unknown magic error on the poll that reads any other
\* non-zero value, and the timeout error on the 1,000th poll that reads 0; it
\* does not poll after any of these.
C11_PollOutcome ==
    LET w == proc[WORKER_PID]
    IN /\ w.polls <= JOIN_POLLS
       /\ (w.pc = "poll") <=> (w.handle.stage = "MMapped" /\ w.result = "none")
       /\ w.pc = "poll" /\ w.polls > 0 => w.read = MAGIC_INIT
       /\ w.result = "ok" => w.read = MAGIC_READY /\ w.polls >= 1
       /\ w.result = "ok" /\ w.pc = "ready" => w.handle = post_init_joined(post_mmap)
       /\ w.result = "unknown" => w.read \notin {MAGIC_INIT, MAGIC_READY} /\ w.polls >= 1
       /\ w.result = "timeout" => w.read = MAGIC_INIT /\ w.polls = JOIN_POLLS

\* C11 witness: the owner has dropped its handle, and the first poll of an
\* open_existing read 0xFFFFFFFF and returned the unknown magic error.
C11_Witness ==
    /\ proc[OWNER_PID].pc = "gone"
    /\ proc[WORKER_PID].result = "unknown"
    /\ proc[WORKER_PID].read = MAGIC_TOMBSTONE
    /\ proc[WORKER_PID].polls = 1

\* C12: while the owner process holds the handle create returned, magic reads
\* 0xCAFEBABE; after the drop of that handle magic reads 0xFFFFFFFF and both
\* eventfds are closed in the owner process.
C12_MagicWhileOwnerLives ==
    /\ proc[OWNER_PID].pc \in {"ready", "acquired"} => magic = MAGIC_READY
    /\ proc[OWNER_PID].pc = "gone" => magic = MAGIC_TOMBSTONE /\ fds[OWNER_PID] = {}

\* C12 witness: create has returned, its handle is held, and the drop of the
\* handle of an open_existing that timed out has stored 0xFFFFFFFF.
C12_Witness ==
    /\ proc[OWNER_PID].pc = "ready"
    /\ proc[WORKER_PID].result = "timeout"
    /\ magic = MAGIC_TOMBSTONE

\* a step of the drop of the handle open_existing returned
JoinedDropStep ==
    /\ proc[WORKER_PID].handle.stage = "Joined"
    /\ proc[WORKER_PID].pc # proc'[WORKER_PID].pc
    /\ proc'[WORKER_PID].pc \in {"drop_tombstone", "drop_munmap", "start"}

\* the fields of RawSharedMemPipe
SharedRecord == <<magic, notify_worker, notify_owner, participants, to_worker_waiters,
                  to_worker, from_worker>>

\* C13 (as amended): the drop of the worker-side handle closes the worker
\* process's two eventfds and unmaps the region, and changes no field of the
\* shared record.
C13_JoinedDropClosesAndUnmaps ==
    [][JoinedDropStep =>
          /\ UNCHANGED SharedRecord
          /\ UNCHANGED stores
          /\ proc'[WORKER_PID].pc = "drop_tombstone" => fds'[WORKER_PID] = {}
          /\ proc'[WORKER_PID].pc = "start" => WORKER_PID \notin region'.mapped]_vars

\* C13 witness: the worker-side handle has been dropped, the eventfds of the
\* worker process are closed, the owner's are open and magic is as it was.
C13_Witness ==
    /\ proc[WORKER_PID].result = "ok"
    /\ proc[WORKER_PID].pc = "start"
    /\ fds[WORKER_PID] = {}
    /\ fds[OWNER_PID] = EventFds
    /\ magic = MAGIC_READY
    /\ \E i \in 1..Len(closes) : closes[i] = [by |-> WORKER_PID, stage |-> "Joined"]

\* C13 (as stated): no drop of a worker-side handle closes the eventfds or
\* stores to the shared record.
C13_JoinedDropOnlyUnmaps ==
    /\ \A i \in 1..Len(closes) : closes[i].stage # "Joined"
    /\ \A i \in 1..Len(stores) : stores[i].stage # "Joined"

C16_MagicPublishedLast ==
    /\ magic = MAGIC_READY =>
          /\ region.inited = Range(InitOrder)
          /\ to_worker_waiters = 0 /\ to_worker = <<>> /\ from_worker = <<>>
          /\ \A slot \in {1, 2} :
                participants[slot] # 0 =>
                    \E i \in 1..Len(acquires) : acquires[i].slot = slot /\ acquires[i].ok
    /\ \A w \in Workers : proc[w].result = "ok" => region.inited = Range(InitOrder)

\* C16 witness: open_existing began to poll before the last field was written
\* and has returned a handle.
C16_Witness ==
    /\ proc[WORKER_PID].result = "ok"
    /\ proc[WORKER_PID].polls > Len(InitOrder)
    /\ proc[WORKER_PID].pc = "ready"
    /\ magic = MAGIC_READY
    /\ participants = <<0, 0>>

(***************************************************************************)
(* Claims about the wakeups.                                               *)
(***************************************************************************)
RECURSIVE SumLen(_)
\* the number of posts in a history of posts, one sequence per call
SumLen(f) ==
    IF DOMAIN f = {} THEN 0
    ELSE LET k == CHOOSE x \in DOMAIN f : TRUE
         IN Len(f[k]) + SumLen([x \in DOMAIN f \ {k} |-> f[x]])

\* C14: with one owner thread calling request_response B times, one call after
\* the other, each answered by one write_all: notify_worker has been posted at
\* most once per call made, and whenever B calls have returned notify_worker
\* has been posted at most B times and notify_owner exactly B times.
C14_PostsOfOneThread ==
    /\ SumLen(posts.notify_worker) <= Len(calls)
    /\ (\A t \in Threads : th[t].pc = "idle") =>
          /\ Len(replies) = Len(done)
          /\ SumLen(posts.notify_worker) <= Len(done)
          /\ SumLen(posts.notify_owner) = Len(done)

\* C14 witness: three calls have returned, the last sent a frame larger than
\* the ring; one was sent without a post and one posted when the ring was full.
C14_Witness ==
    /\ Len(done) = MaxCalls
    /\ \A t \in Threads : th[t].pc = "idle"
    /\ \E k \in 1..MaxCalls : posts.notify_worker[k] = <<>>
    /\ \E k \in 1..MaxCalls : posts.notify_worker[k] = <<"full">>
    /\ \A j \in 1..MaxCalls : posts.notify_owner[j] = <<"written">>

(***************************************************************************)
(* Claims about the wakeup queue and the turns.                            *)
(***************************************************************************)
\* the entries of a heap with the smallest id
MinEntries(data) ==
    {data[i] : i \in {i \in 1..Len(data) : \A j \in 1..Len(data) : data[i][1] <= data[j][1]}}

\* C17: after any sequence of store_current, pop_front and unpark_front the
\* root of the wakeup heap is its entry with the smallest ticket, and the last
\* unpark_front(t) unparked the thread of the smallest entry of the heap it
\* found if that entry's ticket was t, and did nothing if the heap was empty
\* or its smallest ticket was another.
C17_RootIsSmallest ==
    /\ waiting # <<>> => MinEntries(waiting) = {waiting[1]}
    /\ obs.op = "unpark_front" =>
          IF \E e \in MinEntries(obs.heap) : e[1] = obs.arg
          THEN /\ MinEntries(obs.heap) = {<<obs.arg, obs.result>>}
               /\ token[obs.result]
          ELSE obs.result = NoThread

\* C17 witness: three entries were stored with the smallest last, and
\* unpark_front of the smallest ticket has unparked its thread and no other.
C17_Witness ==
    /\ Len(waiting) = MaxHeap
    /\ waiting[1] = <<0, 2>>
    /\ waiting[2][1] > waiting[3][1]
    /\ obs = [op |-> "unpark_front", arg |-> 0, heap |-> waiting, result |-> 2]
    /\ token = [t \in Threads |-> t = 2]

\* thread t is in its receive phase: from the call of recv_response to the
\* fetch_add that hands the turn over
RecvPhase(t) == th[t].pc \in {"recv_wait", "recv_pop", "hand_inc"}

\* C18: at most one thread is in its receive phase, and the ticket of a thread
\* in its receive phase is the value of next.
C18_OneReceiver ==
    /\ Cardinality({t \in Threads : RecvPhase(t)}) <= 1
    /\ \A t \in Threads : RecvPhase(t) => th[t].id = next

\* C18 witness: a thread has returned from notify_owner.wait() and is about to
\* pop its response while the thread with the next ticket is parked.
C18_Witness ==
    \E t, u \in Threads :
        /\ th[t].pc = "recv_pop" /\ th[t].id = next
        /\ th[u].pc = "parked" /\ th[u].id = (next + 1) % U32
        /\ ~token[u]

\* C20: no assertion of request_response fails: no thread panics, a thread
\* that starts to receive read next equal to its ticket (after the park loop it
\* was the root of the heap and was popped), and the value its fetch_add
\* returned is its ticket.
C20_AssertionsHold ==
    \A t \in Threads :
        /\ th[t].pc # "panic"
        /\ RecvPhase(t) => th[t].next = th[t].id
        /\ RecvPhase(t) /\ th[t].stored => \A i \in 1..Len(waiting) : waiting[i][2] # t
        /\ th[t].pc = "hand_lock" => th[t].prev = th[t].id

\* C20 witness: the thread with the last ticket before the wrap-around found
\* next equal to its ticket while the entry of ticket 0 was the root of the
\* heap, and assert!(current_is_front(id)) failed.
C20_Witness ==
    \E t \in Threads :
        /\ th[t].pc = "panic"
        /\ th[t].id = U32 - 1 /\ next = U32 - 1
        /\ Len(waiting) = 2
        /\ waiting[1][1] = 0
        /\ waiting[2] = <<U32 - 1, t>>

\* thread t waits for its turn: from the load of next after send_request to
\* the end of the park loop
WaitPhase(t) == th[t].pc \in {"turn_load", "turn_lock", "park_cond", "parked", "park_lock"}

\* the call with the ticket before thread t's has handed the turn over and
\* returned
PredecessorReturned(t) ==
    \E i \in 1..Len(done) : (done[i].id + 1) % U32 = th[t].id

\* C19: a thread that waits for its turn starts to receive once the call with
\* the ticket before its own has done its fetch_add and its unpark_front,
\* wherever the waiter is between its load of next and park(), and whether or
\* not park() has returned spuriously before.
C19_WaiterProceeds ==
    \A t \in Threads : (WaitPhase(t) /\ PredecessorReturned(t)) ~> RecvPhase(t)

\* C19 witness: the thread with the last ticket before the wrap-around is
\* parked without a token, its predecessor has returned, and the root of the
\* heap is the entry of ticket 0.
C19_Witness ==
    \E t \in Threads :
        /\ th[t].pc = "parked" /\ ~token[t]
        /\ th[t].id = U32 - 1 /\ next = U32 - 1
        /\ PredecessorReturned(t)
        /\ waiting[1][1] = 0

(***************************************************************************)
(* Claims about the heap's entries, the waiter counter and the posts.      *)
(***************************************************************************)
\* the tickets given out and not yet handed over, counted from next
Outstanding == (producer - next) % U32

\* C21 (as amended): every entry of the wakeup heap has a ticket that was
\* given out and is not yet served, that is, one of the Outstanding tickets
\* from next on in the order of the wrapping counter, and no ticket is in the
\* heap twice.
C21_EntriesAwaitTurn ==
    /\ \A i \in 1..Len(waiting) : (waiting[i][1] - next) % U32 < Outstanding
    /\ \A i, j \in 1..Len(waiting) : waiting[i][1] = waiting[j][1] => i = j

\* C21 witness: the threads of the last ticket before the wrap-around and of
\* ticket 0 are both in the heap while the ticket before them is served.
C21_Witness ==
    /\ next = U32 - 2
    /\ Len(waiting) = 2
    /\ {waiting[1][1], waiting[2][1]} = {U32 - 1, 0}

\* C21 (as stated): every entry of the wakeup heap has a ticket greater than
\* or equal to next, and no ticket is in the heap twice.
C21_EntriesNotBelowNext ==
    /\ \A i \in 1..Len(waiting) : waiting[i][1] >= next
    /\ \A i, j \in 1..Len(waiting) : waiting[i][1] = waiting[j][1] => i = j

\* the write_all calls that have returned
WriteAllsDone == Len(replies) - (IF wk.pc \in {"write_push", "write_post", "write_dec"} THEN 1 ELSE 0)

\* C22: to_worker_waiters is the number of send_request calls that have done
\* their fetch_add less the number of write_all calls that have returned, and
\* that difference is never negative, so the counter never wraps below zero.
C22_WaitersCountOutstanding ==
    /\ WriteAllsDone <= Len(calls)
    /\ Len(calls) - WriteAllsDone < U32
    /\ to_worker_waiters = Len(calls) - WriteAllsDone

\* C22 witness: three calls have done their increment and one write_all has
\* returned.
C22_Witness ==
    /\ Len(calls) = MaxCalls
    /\ WriteAllsDone = 1
    /\ to_worker_waiters = MaxCalls - 1

\* C23: every write_all posts notify_owner once and decrements
\* to_worker_waiters once, in this order: when it posts, every byte of the reply
\* has been pushed and neither the post nor the decrement has happened; when it
\* decrements, its one post has happened; once it has returned there is one
\* post and one decrement for it.
C23_PushPostDecrement ==
    /\ wk.pc \in {"write_post", "write_dec"} => wk.out = <<>>
    /\ \A j \in 1..Len(replies) :
           posts.notify_owner[j] = IF j <= WriteAllsDone \/ wk.pc = "write_dec"
                                   THEN <<"written">> ELSE <<>>
    /\ to_worker_waiters = Len(calls) - WriteAllsDone

\* the second write_all, of a reply that fills the from-worker ring, has posted
\* and not yet decremented
C23_Witness ==
    /\ wk.pc = "write_dec"
    /\ Len(replies) = 2
    /\ Len(replies[2]) = FROM_WORKER_LEN
    /\ posts.notify_owner[2] = <<"written">>
    /\ to_worker_waiters = Len(calls) - 1

\* call k of the history is in its send_request
Sending(k) ==
    LET t == calls[k].thread
    IN /\ th[t].pc \in {"send_push", "send_post_full", "send_post"}
       /\ th[t].id = calls[k].id

\* C24: a send_request whose fetch_add returned a non-zero value never posts
\* notify_worker; one whose fetch_add returned 0 posts once: while it sends the
\* wakeup is still owed exactly when nothing has been posted, it is about to
\* post at a push that returned 0 only with the wakeup owed and the producer
\* mutex held, it is about to post after the frame only with the wakeup owed,
\* the frame sent and the mutex released, and once it has returned there is
\* one post, made at one of these two places.
C24_OnePostWhenFirst ==
    \A k \in 1..Len(calls) :
        LET t == calls[k].thread
            made == posts.notify_worker[k]
        IN IF posts.pre[k] # 0
           THEN made = <<>> /\ (Sending(k) => ~th[t].might_wait)
           ELSE IF Sending(k)
           THEN /\ made \in {<<>>, <<"full">>}
                /\ th[t].might_wait <=> made = <<>>
                /\ th[t].pc = "send_post_full" => th[t].might_wait /\ producer_held = t
                /\ th[t].pc = "send_post" =>
                       th[t].might_wait /\ producer_held # t /\ th[t].out = <<>>
           ELSE made \in {<<"full">>, <<"after">>}

\* three calls have returned: one saw the counter at 1 and never posted, one
\* posted when its push returned 0, one posted after the frame
C24_Witness ==
    /\ Len(done) = MaxCalls
    /\ \E k \in 1..MaxCalls : posts.pre[k] # 0 /\ posts.notify_worker[k] = <<>>
    /\ \E k \in 1..MaxCalls : posts.pre[k] = 0 /\ posts.notify_worker[k] = <<"full">>
    /\ \E k \in 1..MaxCalls : posts.pre[k] = 0 /\ posts.notify_worker[k] = <<"after">>

\* write_all calls that have posted notify_owner
RepliesPosted == Len(replies) - (IF wk.pc \in {"write_push", "write_post"} THEN 1 ELSE 0)

\* calls whose receive phase has returned from notify_owner.wait()
PostsConsumed ==
    Len(done) + Cardinality({t \in Threads : th[t].pc \in {"recv_pop", "hand_inc", "hand_lock"}})

\* C25: a thread that has returned from notify_owner.wait() finds every byte
\* of the reply to its call pushed: the bytes it has popped and the bytes in
\* the from-worker ring start with that reply, whose write_all has posted; and
\* notify_owner counts the write_all calls that have posted less the receive
\* phases that have consumed a post.
C25_PostAfterReply ==
    /\ \A t \in Threads :
           th[t].pc = "recv_pop" =>
               LET k == CallOf(t)
                   got == th[t].resp \o from_worker
               IN /\ k <= RepliesPosted
                  /\ Len(got) >= Len(replies[k])
                  /\ Take(got, Len(replies[k])) = replies[k]
    /\ PostsConsumed <= RepliesPosted
    /\ notify_owner = RepliesPosted - PostsConsumed

\* the thread of the second call has returned from the wait and popped nothing
\* yet; its reply of FROM_WORKER_LEN bytes is in the ring and the worker has
\* gone on to read the third frame
C25_Witness ==
    \E t \in Threads :
        /\ th[t].pc = "recv_pop"
        /\ CallOf(t) = 2
        /\ th[t].resp = <<>>
        /\ Len(replies[2]) = FROM_WORKER_LEN
        /\ from_worker = replies[2]
        /\ Len(frames) = 3

\* thread t is sending a frame longer than the to-worker ring and has bytes of
\* it left to push
LargeFrameUnsent(t) ==
    /\ th[t].pc \in {"send_push", "send_post_full"}
    /\ Len(to_ne_bytes(0)) + Len(th[t].req) > TO_WORKER_LEN

\* C26: a frame longer than the to-worker ring is eventually sent completely.
C26_LargeFrameSent ==
    \A t \in TwoThreads : LargeFrameUnsent(t) ~> ~LargeFrameUnsent(t)

\* C27: remaining, when present, has at least one byte left; once the worker
\* has the whole payload of a frame (it is about to reply, is replying, or is
\* about to ask for the next length) no frame is in progress, and
\* read_next_frame_len never returns an error.
C27_FrameClearedWhenConsumed ==
    /\ wk.remaining # None => wk.remaining[2] >= 1
    /\ wk.pc \in {"app_write", "write_push", "write_post", "write_dec", "app_len"} =>
           wk.remaining = None
    /\ wk.pc # "err"

\* the worker has replied to a frame of length 0 and asks for the next length
\* with remaining = Some((0, 0))
C27_Witness ==
    /\ wk.pc = "app_len"
    /\ wk.remaining = <<0, 0>>
    /\ Len(frames) = 1
    /\ frames[1] = <<0, <<>>>>

\* the worker's step is the Err return of read_next_frame_len
FrameLenErr == wk.pc \in {"app_len", "app_body"} /\ wk'.pc = "err"

\* the worker's step is a turn of the recv loop that reads a frame's length
FrameLenTurn == wk.pc = "recv_pop" /\ wk.ctx = "hdr" /\ wk' # wk

\* the bytes a step of the worker popped from the to-worker ring
Popped == SubSeq(to_worker, 1, Len(to_worker) - Len(to_worker'))

\* C28: with a frame in progress read_next_frame_len returns Err(bytes left),
\* pops nothing and leaves remaining as it is; with none it pops 8 bytes
\* in all, sets remaining to (length, length) and returns Ok(length), where
\* length is the length of the request of the next call not yet read.
C28_FrameLenResult ==
    /\ [][FrameLenErr =>
            /\ wk.remaining # None
            /\ wk'.ret = <<"Err", wk.remaining[2]>>
            /\ wk'.remaining = wk.remaining
            /\ to_worker' = to_worker]_vars
    /\ [][wk.pc = "app_len" /\ wk' # wk =>
            IF wk.remaining # None THEN wk'.pc = "err"
            ELSE wk'.pc = "recv_pop" /\ wk'.buf = <<>> /\ to_worker' = to_worker]_vars
    /\ [][FrameLenTurn =>
            /\ to_worker = Popped \o to_worker'
            /\ wk'.pc = "app_body" =>
                   /\ Len(wk.buf \o Popped) = Len(to_ne_bytes(0))
                   /\ wk'.remaining = <<Len(calls[Len(lens')].req), Len(calls[Len(lens')].req)>>
                   /\ wk'.ret = <<"Ok", Len(calls[Len(lens')].req)>>
            /\ wk'.pc # "app_body" =>
                   /\ wk'.buf = wk.buf \o Popped
                   /\ Len(wk'.buf) < Len(to_ne_bytes(0))
                   /\ wk'.remaining = None]_vars

\* read_next_frame_len has returned Err(2) with 2 of the 3 bytes of a frame left
C28_Witness ==
    /\ wk.pc = "err"
    /\ wk.ret = <<"Err", MaxLen - 1>>
    /\ wk.remaining = <<MaxLen, MaxLen - 1>>
    /\ Len(wk.payload) = 1

\* the bytes of the first k frames: 8 of length and the payload, each
RECURSIVE FramesLen(_)
FramesLen(k) == IF k = 0 THEN 0 ELSE FramesLen(k - 1) + Len(to_ne_bytes(0)) + lens[k]

\* the bytes popped from the to-worker ring so far
Consumed == Len(sent) - Len(to_worker)

\* the payload bytes of the frame in progress that have been pushed so far
PayloadSent == SubSeq(sent, FramesLen(Len(lens) - 1) + Len(to_ne_bytes(0)) + 1, Len(sent))

\* C29: read(buf) with a frame in progress and a non-empty buf has at least
\* one and at most `remaining` bytes to return; when it has returned, the
\* bytes read so far are the first bytes of the frame's payload and as many
\* have been popped, remaining is the rest of the frame, and the frame is
\* cleared exactly when nothing is left.
C29_ReadWithinFrame ==
    /\ wk.pc = "recv_pop" /\ wk.ctx = "read" =>
           /\ wk.need >= 1
           /\ wk.need <= wk.remaining[2]
           /\ wk.buf = <<>>
    /\ wk.pc \in {"app_body", "app_write"} /\ wk.payload # <<>> =>
           /\ Consumed = FramesLen(Len(lens) - 1) + Len(to_ne_bytes(0)) + Len(wk.payload)
           /\ wk.payload = Take(PayloadSent, Len(wk.payload))
           /\ wk.pc = "app_body" =>
                  /\ wk.remaining # None
                  /\ wk.remaining[2] >= 1
                  /\ wk.remaining = <<lens[Len(lens)], lens[Len(lens)] - Len(wk.payload)>>
           /\ wk.pc = "app_write" =>
                  /\ wk.remaining = None
                  /\ Len(wk.payload) = lens[Len(lens)]

\* read(buf) has been called after a frame of length 0, whose remaining is
\* Some((0, 0)): recv is given a buffer of no bytes and never returns
C29_Witness ==
    /\ wk.pc = "recv_pop"
    /\ wk.ctx = "read"
    /\ wk.need = 0
    /\ wk.remaining = <<0, 0>>

\* C30: read_exact with a frame in progress neither panics nor waits for more
\* bytes than are left of the frame: its recv returns once `remaining` bytes
\* are read; when it has returned no frame is in progress, the payload read is
\* the whole payload of the frame and not a byte of the next frame is popped.
C30_ReadExactWholeFrame ==
    wk.ctx = "exact" =>
        /\ wk.pc # "panic"
        /\ wk.pc = "recv_pop" =>
               /\ wk.need = wk.remaining[2]
               /\ wk.more = wk.need - 1
        /\ wk.pc = "app_write" =>
               /\ wk.remaining = None
               /\ Len(wk.payload) = lens[Len(lens)]
               /\ wk.payload = Take(PayloadSent, Len(wk.payload))
               /\ Consumed = FramesLen(Len(lens))

\* read_exact has been called after a frame of length 0 in a build without
\* overflow checks: recv waits for more than usize::MAX bytes
C30_Witness ==
    /\ wk.pc = "recv_pop"
    /\ wk.ctx = "exact"
    /\ wk.remaining = <<0, 0>>
    /\ wk.more = USIZE - 1

\* the 8 bytes pushed where the length of the frame after the first k frames
\* stands
HeaderAfter(k) == SubSeq(sent, FramesLen(k) + 1, FramesLen(k) + Len(to_ne_bytes(0)))

\* the worker failed the check of the upper four bytes of a length
HeaderPanic == wk.pc = "panic" /\ wk.ctx = "hdr"

\* C31: the worker accepts no length with one of its upper four bytes set;
\* where it reads one it fails with no frame in progress and exactly the 8
\* bytes of that length popped, and none after them.
C31_BadLengthFails ==
    /\ \A k \in 1..Len(lens) : UpperIsZero(HeaderAfter(k - 1))
    /\ HeaderPanic =>
           /\ ~UpperIsZero(HeaderAfter(Len(lens)))
           /\ wk.remaining = None
           /\ Consumed = FramesLen(Len(lens)) + Len(to_ne_bytes(0))
    /\ wk.pc \notin {"panic", "recv_pop", "recv_load", "recv_wait"} =>
           Consumed <= FramesLen(Len(lens))

\* after one frame read and answered the worker has failed at a length whose
\* last byte is set; the byte pushed after that length is still in the ring
C31_Witness ==
    /\ HeaderPanic
    /\ Len(lens) = 1
    /\ HeaderAfter(1)[8] = 1
    /\ Len(to_worker) = 1

\* nothing was popped from ring on the way to ring2: the consumer index stands
OnlyPushed(ring, ring2) == Len(ring2) >= Len(ring) /\ Take(ring2, Len(ring)) = ring

\* nothing was pushed into ring on the way to ring2: the producer index stands
OnlyPopped(ring, ring2) ==
    Len(ring2) <= Len(ring) /\ Drop(ring, Len(ring) - Len(ring2)) = ring2

\* C32: a step of an owner thread pops nothing from the to-worker ring, pushes
\* nothing into the from-worker ring and does not decrement to_worker_waiters;
\* a step of the worker pushes nothing into the to-worker ring, pops nothing
\* from the from-worker ring, leaves the ticket counter and next as they are
\* and does not increment to_worker_waiters.
C32_SidesKeepToTheirFields ==
    [][/\ th' # th =>
            /\ OnlyPushed(to_worker, to_worker')
            /\ OnlyPopped(from_worker, from_worker')
            /\ to_worker_waiters' \in {to_worker_waiters, (to_worker_waiters + 1) % U32}
       /\ wk' # wk =>
            /\ OnlyPopped(to_worker, to_worker')
            /\ OnlyPushed(from_worker, from_worker')
            /\ producer' = producer
            /\ next' = next
            /\ to_worker_waiters' \in {to_worker_waiters, (to_worker_waiters - 1) % U32}]_vars

\* both sides have been at their fields: one call has returned, two more are
\* counted in to_worker_waiters, and both rings hold bytes
C32_Witness ==
    /\ next = 1
    /\ producer = MaxCalls
    /\ to_worker_waiters = 2
    /\ to_worker # <<>>
    /\ from_worker # <<>>

\* the bytes of the first k frames the worker read: length and payload, each
RECURSIVE FramesRead(_)
FramesRead(k) ==
    IF k = 0 THEN <<>>
    ELSE FramesRead(k - 1) \o to_ne_bytes(frames[k][1]) \o frames[k][2]

\* every byte the worker has popped from the to-worker ring, in the order it
\* got them: the frames read, the length and the payload so far of a frame in
\* progress, and what recv has in its buffer
WorkerGot ==
    FramesRead(Len(frames))
        \o (IF Len(lens) > Len(frames) THEN to_ne_bytes(lens[Len(lens)]) \o wk.payload
            ELSE <<>>)
        \o wk.buf

\* what the k-th call has popped from the from-worker ring
RespOf(k) ==
    LET t == calls[k].thread
    IN IF \E i \in 1..Len(done) : done[i].id = calls[k].id
       THEN done[CHOOSE i \in 1..Len(done) : done[i].id = calls[k].id].resp
       ELSE IF th[t].pc # "idle" /\ th[t].id = calls[k].id THEN th[t].resp
       ELSE <<>>

\* every byte the owner threads have popped from the from-worker ring, in the
\* order of their tickets
RECURSIVE OwnersGot(_)
OwnersGot(k) == IF k = 0 THEN <<>> ELSE OwnersGot(k - 1) \o RespOf(k)

RECURSIVE RepliesTo(_)
RepliesTo(j) == IF j = 0 THEN <<>> ELSE RepliesTo(j - 1) \o replies[j]

\* every byte write_all has pushed into the from-worker ring
WorkerPushed ==
    LET all == RepliesTo(Len(replies))
    IN IF wk.pc = "write_push" THEN Take(all, Len(all) - Len(wk.out)) ELSE all

BothSidesOfWrap ==
    /\ \E i \in 1..Len(waiting) : waiting[i][1] = U32 - 1
    /\ \E j \in 1..Len(waiting) : waiting[j][1] = 0

\* C34: with the entries of the last ticket before the wrap-around and of
\* ticket 0 both in the heap, the root is the entry of the ticket before the
\* wrap; and the hand-off unparks the thread whose ticket is the new value of
\* next: a parked thread whose ticket is next and whose predecessor has
\* returned has its token.
C34_WrapServedInOrder ==
    /\ BothSidesOfWrap => waiting[1][1] = U32 - 1
    /\ \A t \in Threads :
           th[t].pc = "parked" /\ th[t].id = next /\ PredecessorReturned(t) => token[t]

\* the call with ticket U32 - 2 is being served, the threads with tickets
\* U32 - 1 and 0 are both parked, and the root of the heap is ticket 0
C34_Witness ==
    /\ next = U32 - 2
    /\ BothSidesOfWrap
    /\ waiting[1][1] = 0
    /\ \A i \in 1..Len(waiting) : th[waiting[i][2]].pc = "parked"

\* the drop of the handle create returned has closed the eventfds
OwnerClosed ==
    \E i \in 1..Len(closes) : closes[i].by = OWNER_PID /\ closes[i].stage = "Created"

\* C35: the drop of the owner's handle stores the tombstone, then closes the
\* eventfds, then unmaps: once it has closed them magic is no longer
\* 0xCAFEBABE, and once it has unmapped the region they are closed.
C35_TombstoneThenClose ==
    /\ OwnerClosed => magic # MAGIC_READY
    /\ proc[OWNER_PID].pc = "gone" => OwnerClosed /\ fds[OWNER_PID] = {}

\* the drop of the owner's handle has closed both eventfds and has not yet
\* stored the tombstone: magic reads 0xCAFEBABE
C35_Witness ==
    /\ proc[OWNER_PID].pc = "drop_tombstone"
    /\ proc[OWNER_PID].handle.stage = "Created"
    /\ OwnerClosed
    /\ fds[OWNER_PID] = {}
    /\ magic = MAGIC_READY

\* C36: the counter of a SpinWait is within 0..10; a spin() that leaves it at
\* n below 10 has executed 2^n pause hints and not yielded, a spin() called
\* with the counter at 9 or 10 yields and leaves it at 10, and reset() leaves
\* it at 0.
C36_BackoffBounded ==
    /\ [](/\ spinwait.n \in 0..SPIN_LIMIT
          /\ spinwait.last = "spin" =>
                 IF spinwait.n < SPIN_LIMIT
                 THEN spinwait.hints = 2 ^ spinwait.n /\ ~spinwait.yielded
                 ELSE spinwait.hints = 0 /\ spinwait.yielded
          /\ spinwait.last = "reset" => spinwait.n = 0)
    /\ [][spinwait'.polls # spinwait.polls =>
             spinwait'.n = IF spinwait.n + 1 < SPIN_LIMIT THEN spinwait.n + 1
                           ELSE SPIN_LIMIT]_vars

\* spin() has been called with the counter at 10: it yielded and the counter
\* is still 10
C36_Witness ==
    /\ spinwait.n = SPIN_LIMIT
    /\ spinwait.last = "spin"
    /\ spinwait.yielded
    /\ spinwait.polls = SPIN_LIMIT + 2
=============================================================================
